---- MODULE Spec2Model ----
(***************************************************************************)
(* Model of the better-notes index store (src/src/index/indexer.ts) and    *)
(* retrieval engine (src/src/notes/search.ts).                             *)
(*                                                                         *)
(* A calendar date "YYYY-MM-DD" is modelled by its day number: ISO dates   *)
(* have a fixed width, so SQLite's text comparison orders them as the day  *)
(* numbers are ordered.  Both parsers set note.id = note.date = the file   *)
(* name without ".md", so a note's id is its day number too.               *)
(* Timestamps (created_at, updated_at, indexed_at, first_seen, last_seen)  *)
(* and file_path are not modelled.                                         *)
(***************************************************************************)
EXTENDS Integers, Sequences, FiniteSets, TLC

(***************************************************************************)
(* Bounds                                                                  *)
(***************************************************************************)
MaxDay == 2        \* days (= note ids) 1..MaxDay
MaxCount == 2      \* cap on an entity's mention_count
MaxLimit == 2      \* largest result limit a query asks for

Days == 1..MaxDay
Limits == 1..MaxLimit

(***************************************************************************)
(* Strings                                                                 *)
(***************************************************************************)
\* one character of String.prototype.toLowerCase (ASCII letters)
LowerChar(c) ==
  CASE c = "A" -> "a"
    [] c = "B" -> "b"
    [] c = "C" -> "c"
    [] c = "D" -> "d"
    [] c = "E" -> "e"
    [] c = "F" -> "f"
    [] c = "G" -> "g"
    [] c = "H" -> "h"
    [] c = "I" -> "i"
    [] c = "J" -> "j"
    [] c = "K" -> "k"
    [] c = "L" -> "l"
    [] c = "M" -> "m"
    [] c = "N" -> "n"
    [] c = "O" -> "o"
    [] c = "P" -> "p"
    [] c = "Q" -> "q"
    [] c = "R" -> "r"
    [] c = "S" -> "s"
    [] c = "T" -> "t"
    [] c = "U" -> "u"
    [] c = "V" -> "v"
    [] c = "W" -> "w"
    [] c = "X" -> "x"
    [] c = "Y" -> "y"
    [] c = "Z" -> "z"
    [] OTHER -> c

\* String.prototype.toLowerCase on ASCII text, by halves
RECURSIVE ToLower(_)
ToLower(s) ==
  IF Len(s) = 0 THEN ""
  ELSE IF Len(s) = 1 THEN LowerChar(s)
  ELSE LET h == Len(s) \div 2
       IN ToLower(SubSeq(s, 1, h)) \o ToLower(SubSeq(s, h + 1, Len(s)))

\* Array.prototype.join(sep) on an array of strings
RECURSIVE Join(_, _)
Join(arr, sep) ==
  IF Len(arr) = 0 THEN ""
  ELSE IF Len(arr) = 1 THEN arr[1]
  ELSE arr[1] \o sep \o Join(Tail(arr), sep)

\* p occurs in s as a contiguous run of characters
Contains(s, p) ==
  \E i \in 1..(Len(s) - Len(p) + 1) : SubSeq(s, i, i + Len(p) - 1) = p

\* SQLite  value LIKE '%' || p || '%'  for a pattern p of word characters:
\* LIKE ignores ASCII letter case
LikeContains(value, p) == Contains(ToLower(value), ToLower(p))

\* position of the first sep in s, 0 when there is none
FirstIndex(s, sep) ==
  IF \E i \in 1..Len(s) : SubSeq(s, i, i) = sep
  THEN CHOOSE i \in 1..Len(s) :
         /\ SubSeq(s, i, i) = sep
         /\ \A j \in 1..(i - 1) : SubSeq(s, j, j) # sep
  ELSE 0

\* the non-empty pieces of s between separators, as a set
RECURSIVE Tokens(_, _)
Tokens(s, sep) ==
  IF Len(s) = 0 THEN {}
  ELSE LET k == FirstIndex(s, sep)
       IN IF k = 0 THEN {s}
          ELSE (IF k = 1 THEN {} ELSE {SubSeq(s, 1, k - 1)})
               \cup Tokens(SubSeq(s, k + 1, Len(s)), sep)

(***************************************************************************)
(* Inputs                                                                  *)
(***************************************************************************)
\* front matter and body of the notes the operations are called with;
\* tags and mentions are arrays without repetitions, mentions in lower case
\* (NoteManager.extractMentions), the title is the parsers' default
NoteShapes ==
  { [title |-> "notes", category |-> "work", tags |-> <<"meeting">>,
     mentions |-> <<"hannah">>, content |-> "met hannah"],
    [title |-> "notes", category |-> "personal", tags |-> <<"meeting", "idea">>,
     mentions |-> <<"hannah", "bob">>, content |-> "lunch"],
    [title |-> "notes", category |-> "personal", tags |-> <<>>,
     mentions |-> <<>>, content |-> "plain day"] }

\* note.id and note.date are both the file name without ".md"
MakeNote(d, shape) ==
  [id |-> d, date |-> d, title |-> shape.title, category |-> shape.category,
   tags |-> shape.tags, mentions |-> shape.mentions, content |-> shape.content]

AllNotes == { MakeNote(d, s) : d \in Days, s \in NoteShapes }

\* the lists NoteManager.getAllNotes can return for a root in which every
\* dated file name occurs once: sets of notes with distinct ids
DocSets ==
  { S \in SUBSET AllNotes : \A a \in S, b \in S : a.id = b.id => a = b }

QueryNames == {"hannah", "bob", "ann", "Bob"}
QueryTags == {"meeting", "idea", "meet"}
QueryCategories == {"work", "personal"}
QueryTexts == {"hannah", "lunch", "notes"}

(***************************************************************************)
(* State                                                                   *)
(***************************************************************************)
VARIABLES
  enableEntityExtraction, \* config.search.enableEntityExtraction
  db,            \* the sql.js database: tables notes, entities, note_entities
  miniSearch,    \* the MiniSearch index: id -> indexed document
  noteContents,  \* Map id -> body, used for snippets
  disk,          \* the database file written by save()
  pc,            \* "idle", or "rebuilding" between the two halves of rebuildIndex
  pending,       \* rebuildIndex's local `notes` while it awaits
  lastOp,        \* the last completed call and its argument / return value
  query,         \* the SearchQuery of the last SearchEngine.search
  out,           \* the result list of the last SearchEngine.search
  today,         \* the clock's calendar day, formatDate(new Date())
  raw,           \* the query string last given to parseQuery, as its pieces
  snip,          \* the last extractSnippet call: content, query and result
  snippets,      \* the snippets of the last result list, in its order
  git,           \* GitSync: its timer and flag, the sync() runs, the daemon's phase
  files,         \* the document root: day -> the file YYYY-MM-DD.md
  now,           \* the clock's instant, new Date().toISOString()
  events,        \* file events chokidar has seen and not yet delivered
  watched        \* the last file event handled: the event, the Indexer calls
                 \* made for it and what the FileWatcher emitted

vars == <<enableEntityExtraction, db, miniSearch, noteContents, disk, pc,
          pending, lastOp, query, out, today, raw, snip, snippets, files, now,
          events, watched, git>>

\* the clock, the query parser's and snippet extractor's last call, the
\* document root and the file watcher: the index store's calls leave them alone
envVars == <<today, raw, snip, snippets, files, now, events, watched, git>>

\* a function without the key k
Drop(f, k) == [i \in DOMAIN f \ {k} |-> f[i]]

EmptyDb == [notes |-> <<>>, entities |-> <<>>, note_entities |-> {}]

\* the in-memory parts of the Indexer plus the database file, as one value
Store == [db |-> db, miniSearch |-> miniSearch, noteContents |-> noteContents,
          disk |-> disk]

\* Indexer.create on a fresh index directory: empty schema, saved
EmptyStore == [db |-> EmptyDb, miniSearch |-> <<>>, noteContents |-> <<>>,
               disk |-> EmptyDb]

(***************************************************************************)
(* Indexer: mutations                                                      *)
(***************************************************************************)
\* save(): export the database and write it to dbPath
save(S) == [S EXCEPT !.disk = S.db]

\* DELETE FROM notes WHERE id = ?   (sql.js leaves PRAGMA foreign_keys at
\* SQLite's default, OFF, so ON DELETE CASCADE does not fire)
DeleteRow(d, id) == [d EXCEPT !.notes = Drop(@, id)]

\* the row INSERT INTO notes writes
Row(note) ==
  [id |-> note.id, date |-> note.date, title |-> note.title,
   category |-> note.category, tags |-> Join(note.tags, ","),
   mentions |-> Join(note.mentions, ","), content |-> note.content]

InsertRow(d, note) == [d EXCEPT !.notes = (note.id :> Row(note)) @@ @]

\* the document miniSearch.add receives
MiniSearchDoc(note) ==
  [id |-> note.id, title |-> note.title, content |-> note.content,
   tags |-> Join(note.tags, " "), mentions |-> Join(note.mentions, " "),
   date |-> note.date, category |-> note.category]

\* the update that stores the body only for an id that has none yet
UpdateMiniSearch_KeepsOldBody(S, note) ==
  [S EXCEPT !.miniSearch = (note.id :> MiniSearchDoc(note)) @@ Drop(@, note.id),
            !.noteContents = @ @@ (note.id :> note.content)]

\* discard the old document if present, add the new one, store the body
UpdateMiniSearch(S, note) ==
  [S EXCEPT !.miniSearch = (note.id :> MiniSearchDoc(note)) @@ Drop(@, note.id),
            !.noteContents = (note.id :> note.content) @@ Drop(@, note.id)]

\* the upsert keyed by the mention as written, without toLowerCase
indexMention_KeepsCase(d, noteId, mention) ==
  [d EXCEPT
     !.entities = IF mention \in DOMAIN @
                  THEN [@ EXCEPT ![mention] = @ + 1]
                  ELSE (mention :> 1) @@ @,
     !.note_entities = @ \cup {<<noteId, mention>>}]

\* one iteration of indexEntities' loop.  An entity is identified by its
\* name: AUTOINCREMENT never reuses an entity id and rebuildIndex deletes the
\* links together with the entities, so id and name correspond one to one.
indexMention(d, noteId, mention) ==
  LET name == ToLower(mention)
  IN [d EXCEPT
        !.entities = IF name \in DOMAIN @
                     THEN [@ EXCEPT ![name] = @ + 1]
                     ELSE (name :> 1) @@ @,
        !.note_entities = @ \cup {<<noteId, name>>}]

\* indexEntities over the first n mentions of the note
RECURSIVE indexEntitiesUpTo(_, _, _)
indexEntitiesUpTo(d, note, n) ==
  IF n = 0 THEN d
  ELSE indexMention(indexEntitiesUpTo(d, note, n - 1), note.id, note.mentions[n])

indexEntities(d, note) == indexEntitiesUpTo(d, note, Len(note.mentions))

indexNote(S, note, extract) ==
  LET s1 == [S EXCEPT !.db = InsertRow(DeleteRow(@, note.id), note)]
      s2 == UpdateMiniSearch(s1, note)
      s3 == IF extract THEN [s2 EXCEPT !.db = indexEntities(@, note)] ELSE s2
  IN save(s3)

\* removeNote that leaves the document in the full-text index
removeNote_KeepsFullText(S, noteId) ==
  save([S EXCEPT
          !.db = [@ EXCEPT
                    !.note_entities = { l \in @ : l[1] # noteId },
                    !.notes = Drop(@, noteId)],
          !.noteContents = Drop(@, noteId)])

\* removeNote that also deletes the entities the note was linked to
removeNote_PrunesEntities(S, noteId) ==
  save([S EXCEPT
          !.db = [@ EXCEPT
                    !.entities =
                      [n \in DOMAIN @ \ { l[2] : l \in { k \in S.db.note_entities :
                                                           k[1] = noteId } }
                         |-> @[n]],
                    !.note_entities = { l \in @ : l[1] # noteId },
                    !.notes = Drop(@, noteId)],
          !.miniSearch = Drop(@, noteId),
          !.noteContents = Drop(@, noteId)])

removeNote(S, noteId) ==
  save([S EXCEPT
          !.db = [@ EXCEPT
                    !.note_entities = { l \in @ : l[1] # noteId },
                    !.notes = Drop(@, noteId)],
          !.miniSearch = Drop(@, noteId),
          !.noteContents = Drop(@, noteId)])

\* the clearing half without DELETE FROM entities
rebuildClear_KeepsEntities(S) ==
  [S EXCEPT !.db = [EmptyDb EXCEPT !.entities = S.db.entities],
            !.miniSearch = <<>>, !.noteContents = <<>>]

\* first half of rebuildIndex: the three DELETEs, removeAll and clear
rebuildClear(S) ==
  [S EXCEPT !.db = EmptyDb, !.miniSearch = <<>>, !.noteContents = <<>>]

\* the loop of rebuildIndex over the list `order`, then the final save
RECURSIVE indexAll(_, _, _)
indexAll(S, order, extract) ==
  IF Len(order) = 0 THEN S
  ELSE indexAll(indexNote(S, Head(order), extract), Tail(order), extract)

rebuildReindex(S, order, extract) == save(indexAll(S, order, extract))

\* the steps of indexNote at which a storage error can be thrown
FailSteps == {"delete", "insert", "fulltext", "entities", "save"}

\* indexNote when `step` throws: the steps before it have run, the rest has
\* not; within indexEntities, n mentions were processed before the throw
indexNoteFailing(S, note, extract, step, n) ==
  LET s0 == [S EXCEPT !.db = DeleteRow(@, note.id)]
      s1 == [s0 EXCEPT !.db = InsertRow(@, note)]
      s2 == UpdateMiniSearch(s1, note)
      s3 == IF extract THEN [s2 EXCEPT !.db = indexEntitiesUpTo(@, note, n)] ELSE s2
      s4 == IF extract THEN [s2 EXCEPT !.db = indexEntities(@, note)] ELSE s2
  IN CASE step = "delete" -> S
       [] step = "insert" -> s0
       [] step = "fulltext" -> s1
       [] step = "entities" -> s3
       [] step = "save" -> s4

\* getStats().noteCount
noteCount(d) == Cardinality(DOMAIN d.notes)

\* the orders in which a set of notes can be listed
Orders(S) ==
  { o \in [1..Cardinality(S) -> S] : \A i, j \in DOMAIN o : o[i] = o[j] => i = j }


(***************************************************************************)
(* Indexer: queries.  A result list is modelled by the list of its ids.    *)
(***************************************************************************)
Min(a, b) == IF a < b THEN a ELSE b

\* LIMIT n / Array.prototype.slice(0, n)
Take(seq, n) == SubSeq(seq, 1, Min(n, Len(seq)))

\* the rows ordered by ascending date
RECURSIVE OrderByDateAsc(_, _)
OrderByDateAsc(ids, rows) ==
  IF ids = {} THEN <<>>
  ELSE LET m == CHOOSE i \in ids : \A j \in ids : rows[j].date >= rows[i].date
       IN <<m>> \o OrderByDateAsc(ids \ {m}, rows)

\* ORDER BY n.date DESC over the rows with the given ids
RECURSIVE OrderByDateDesc(_, _)
OrderByDateDesc(ids, rows) ==
  IF ids = {} THEN <<>>
  ELSE LET m == CHOOSE i \in ids : \A j \in ids : rows[j].date <= rows[i].date
       IN <<m>> \o OrderByDateDesc(ids \ {m}, rows)

\* WHERE n.mentions LIKE '%' || lower(name) || '%'
PersonMatches(row, name) == LikeContains(row.mentions, ToLower(name))

searchByPerson(d, name, limit) ==
  Take(OrderByDateDesc({ i \in DOMAIN d.notes : PersonMatches(d.notes[i], name) },
                       d.notes), limit)

\* the date filter with an exclusive upper end
DateMatches_ExclusiveEnd(row, startDate, endDate) ==
  row.date >= startDate /\ row.date < endDate

\* WHERE n.date >= ? AND n.date <= ?
DateMatches(row, startDate, endDate) ==
  row.date >= startDate /\ row.date <= endDate

searchByDateRange(d, startDate, endDate, limit) ==
  Take(OrderByDateDesc({ i \in DOMAIN d.notes :
                           DateMatches(d.notes[i], startDate, endDate) },
                       d.notes), limit)

\* WHERE n.category = ?
CategoryMatches(row, category) == row.category = category

searchByCategory(d, category, limit) ==
  Take(OrderByDateDesc({ i \in DOMAIN d.notes :
                           CategoryMatches(d.notes[i], category) },
                       d.notes), limit)

\* WHERE n.tags LIKE '%' || tag || '%'
TagMatches(row, tag) == LikeContains(row.tags, tag)

searchByTag(d, tag, limit) ==
  Take(OrderByDateDesc({ i \in DOMAIN d.notes : TagMatches(d.notes[i], tag) },
                       d.notes), limit)

(***************************************************************************)
(* MiniSearch, configured with fields title, content, tags, mentions,      *)
(* prefix: true and boost {title: 2, mentions: 1.5}.  A query term matches *)
(* a field when it is a prefix of one of the field's lower-cased tokens;   *)
(* a document's score is the sum of the boosts of the fields its terms     *)
(* match (doubled, to stay in the integers).  The vocabulary of the model  *)
(* has no two words within the fuzzy distance of each other, and equal     *)
(* scores are listed by ascending id.                                      *)
(***************************************************************************)
IsPrefix(p, t) == Len(p) <= Len(t) /\ SubSeq(t, 1, Len(p)) = p

FieldHit(fieldText, term) ==
  \E tok \in Tokens(ToLower(fieldText), " ") : IsPrefix(term, tok)

TermScore(doc, term) ==
  (IF FieldHit(doc.title, term) THEN 4 ELSE 0)
  + (IF FieldHit(doc.mentions, term) THEN 3 ELSE 0)
  + (IF FieldHit(doc.content, term) THEN 2 ELSE 0)
  + (IF FieldHit(doc.tags, term) THEN 2 ELSE 0)

RECURSIVE SumScores(_, _)
SumScores(doc, terms) ==
  IF terms = {} THEN 0
  ELSE LET t == CHOOSE u \in terms : TRUE
       IN TermScore(doc, t) + SumScores(doc, terms \ {t})

Score(doc, text) == SumScores(doc, Tokens(ToLower(text), " "))

RECURSIVE OrderByScoreDesc(_, _, _)
OrderByScoreDesc(ids, ms, text) ==
  IF ids = {} THEN <<>>
  ELSE LET m == CHOOSE i \in ids :
                  \A j \in ids :
                    \/ Score(ms[j], text) < Score(ms[i], text)
                    \/ Score(ms[j], text) = Score(ms[i], text) /\ i <= j
       IN <<m>> \o OrderByScoreDesc(ids \ {m}, ms, text)

\* Indexer.search: this.miniSearch.search(text).slice(0, limit)
searchText(ms, text, limit) ==
  Take(OrderByScoreDesc({ i \in DOMAIN ms : Score(ms[i], text) > 0 }, ms, text),
       limit)

\* the ids of a result list
Ids(seq) == { seq[i] : i \in DOMAIN seq }

(***************************************************************************)
(* SearchEngine.search on a SearchQuery.  An absent string field is "", an *)
(* absent date or limit is 0: the values JavaScript treats as false.       *)
(***************************************************************************)
maxResults == 20   \* config.search.maxResults (default)
RecentDays == 7    \* the window of the recent-notes view
Today == today     \* the day the query is issued on

NoQuery == [text |-> "", person |-> "", tag |-> "", category |-> "",
            startDate |-> 0, endDate |-> 0, limit |-> 0]

\* a.filter((r) => bIds.has(r.id))
intersectResults(a, b) == SelectSeq(a, LAMBDA r : r \in Ids(b))

\* results.length > 0 ? intersectResults(results, next) : next
Merge(results, next) ==
  IF Len(results) > 0 THEN intersectResults(results, next) ELSE next

search_NoRecentView(d, ms, q) ==
  LET limit == IF q.limit # 0 THEN q.limit ELSE maxResults
      r0 == IF q.startDate # 0 /\ q.endDate # 0
            THEN searchByDateRange(d, q.startDate, q.endDate, limit)
            ELSE <<>>
      r1 == IF q.person # "" THEN Merge(r0, searchByPerson(d, q.person, limit)) ELSE r0
      r2 == IF q.tag # "" THEN Merge(r1, searchByTag(d, q.tag, limit)) ELSE r1
      r3 == IF q.category # ""
            THEN Merge(r2, searchByCategory(d, q.category, limit))
            ELSE r2
      r4 == IF q.text # "" THEN Merge(r3, searchText(ms, q.text, limit)) ELSE r3
      r5 == r4
  IN \* regenerateSnippets rewrites the snippets, not the list of ids
     Take(r5, limit)

search(d, ms, q) ==
  LET limit == IF q.limit # 0 THEN q.limit ELSE maxResults
      r0 == IF q.startDate # 0 /\ q.endDate # 0
            THEN searchByDateRange(d, q.startDate, q.endDate, limit)
            ELSE <<>>
      r1 == IF q.person # "" THEN Merge(r0, searchByPerson(d, q.person, limit)) ELSE r0
      r2 == IF q.tag # "" THEN Merge(r1, searchByTag(d, q.tag, limit)) ELSE r1
      r3 == IF q.category # ""
            THEN Merge(r2, searchByCategory(d, q.category, limit))
            ELSE r2
      r4 == IF q.text # "" THEN Merge(r3, searchText(ms, q.text, limit)) ELSE r3
      r5 == IF /\ Len(r4) = 0
               /\ q.text = "" /\ q.person = "" /\ q.tag = "" /\ q.category = ""
            THEN searchByDateRange(d, Today - RecentDays, Today, limit)
            ELSE r4
  IN \* regenerateSnippets rewrites the snippets, not the list of ids
     Take(r5, limit)

\* the queries the engine is called with
DateRanges == {<<0, 0>>} \cup { <<a, b>> \in Days \X Days : a <= b }

Queries ==
  { [text |-> t, person |-> p, tag |-> g, category |-> c,
     startDate |-> r[1], endDate |-> r[2], limit |-> l] :
      t \in {"", "hannah", "lunch"}, p \in {"", "hannah", "bob"},
      g \in {"", "meeting", "idea"}, c \in {"", "work"},
      r \in DateRanges, l \in {0} \cup Limits }

(***************************************************************************)
(* Specification of the index store under a caller that awaits each call   *)
(***************************************************************************)
\* no file in the root
NoFile == [exists |-> FALSE]

NoSnip == [content |-> "", query |-> "", snippet |-> ""]

\* GitSync as constructed, git sync disabled, the daemon not started
NoGit == [enabled |-> FALSE, phase |-> "off", clock |-> 0, debounceTimer |-> -1,
          timers |-> {}, pendingSync |-> FALSE, running |-> 0,
          firstCall |-> -1, lastCall |-> -1, sinceCall |-> 0,
          cancelled |-> FALSE]

\* no file event handled yet
NoWatched == [event |-> [kind |-> "", path |-> ""], found |-> "",
              calls |-> <<>>, emits |-> <<>>]

\* the clock reads the last day of the model's calendar, the root is empty and
\* the parser, the snippet extractor and the watcher have not been called
EnvInit ==
  /\ today = MaxDay
  /\ raw = <<>>
  /\ snip = NoSnip
  /\ snippets = <<>>
  /\ files = [d \in Days |-> NoFile]
  /\ now = 0
  /\ events = {}
  /\ watched = NoWatched
  /\ git = NoGit

Init ==
  /\ enableEntityExtraction \in BOOLEAN
  /\ db = EmptyStore.db
  /\ miniSearch = EmptyStore.miniSearch
  /\ noteContents = EmptyStore.noteContents
  /\ disk = EmptyStore.disk
  /\ pc = "idle"
  /\ pending = {}
  /\ lastOp = [op |-> "create", id |-> 0]
  /\ query = NoQuery
  /\ out = <<>>
  /\ EnvInit

SetStore(S) ==
  /\ db' = S.db
  /\ miniSearch' = S.miniSearch
  /\ noteContents' = S.noteContents
  /\ disk' = S.disk

\* the mention counts the call would produce stay within the model's cap
WithinCap(note) ==
  \A i \in 1..Len(note.mentions) :
    LET name == ToLower(note.mentions[i])
    IN name \in DOMAIN db.entities => db.entities[name] < MaxCount

IndexNote(note) ==
  /\ pc = "idle"
  /\ enableEntityExtraction => WithinCap(note)
  /\ SetStore(indexNote(Store, note, enableEntityExtraction))
  /\ lastOp' = [op |-> "indexNote", id |-> note.id]
  /\ UNCHANGED <<enableEntityExtraction, pc, pending, query, out>>
  /\ UNCHANGED envVars

RemoveNote(noteId) ==
  /\ pc = "idle"
  /\ SetStore(removeNote(Store, noteId))
  /\ lastOp' = [op |-> "removeNote", id |-> noteId]
  /\ UNCHANGED <<enableEntityExtraction, pc, pending, query, out>>
  /\ UNCHANGED envVars

\* rebuildIndex up to `await noteManager.getAllNotes()`
RebuildStart(docs) ==
  /\ pc = "idle"
  /\ SetStore(rebuildClear(Store))
  /\ pc' = "rebuilding"
  /\ pending' = docs
  /\ lastOp' = [op |-> "rebuildClear", id |-> 0]
  /\ UNCHANGED <<enableEntityExtraction, query, out>>
  /\ UNCHANGED envVars

\* rebuildIndex after the await: index every note, save, return notes.length
RebuildFinish ==
  /\ pc = "rebuilding"
  /\ \E order \in Orders(pending) :
       SetStore(rebuildReindex(Store, order, enableEntityExtraction))
  /\ pc' = "idle"
  /\ pending' = {}
  /\ lastOp' = [op |-> "rebuildIndex", id |-> Cardinality(pending)]
  /\ UNCHANGED <<enableEntityExtraction, query, out>>
  /\ UNCHANGED envVars

Next ==
  \/ \E note \in AllNotes : IndexNote(note)
  \/ \E noteId \in Days : RemoveNote(noteId)
  \/ \E docs \in DocSets : RebuildStart(docs)
  \/ RebuildFinish

Spec == Init /\ [][Next]_vars

(***************************************************************************)
(* The same store when a step of indexNote can throw a storage error       *)
(***************************************************************************)
\* the four representations agree: nothing is left half-updated
InStep ==
  /\ disk = db
  /\ DOMAIN miniSearch = DOMAIN db.notes
  /\ DOMAIN noteContents = DOMAIN db.notes
  /\ \A i \in DOMAIN db.notes : noteContents[i] = db.notes[i].content

\* Faults are injected one at a time: a call fails in a store that no earlier
\* failed call has left half-updated.
IndexNoteFail(note, step, n) ==
  /\ pc = "idle"
  /\ InStep
  /\ enableEntityExtraction => WithinCap(note)
  /\ step = "entities" => enableEntityExtraction /\ n < Len(note.mentions)
  /\ step # "entities" => n = 0
  /\ SetStore(indexNoteFailing(Store, note, enableEntityExtraction, step, n))
  /\ lastOp' = [op |-> "indexNoteFailed", id |-> note.id]
  /\ UNCHANGED <<enableEntityExtraction, pc, pending, query, out>>
  /\ UNCHANGED envVars

NextFault ==
  \/ \E note \in AllNotes : IndexNote(note)
  \/ \E noteId \in Days : RemoveNote(noteId)
  \/ \E note \in AllNotes, step \in FailSteps, n \in 0..1 :
       IndexNoteFail(note, step, n)

SpecFault == Init /\ [][NextFault]_vars

(***************************************************************************)
(* Properties of the index store                                           *)
(***************************************************************************)
\* every limit a caller can pass, and one larger than any result
NoLimit == MaxDay + 1
QueryLimits == Limits \cup {NoLimit}

\* the names in a note's mentions array, as indexEntities keys them
MentionNames(note) == { ToLower(note.mentions[i]) : i \in 1..Len(note.mentions) }

\* C1: indexNote(D) twice in a row with the identical D (entity extraction
\* enabled) leaves one entry with id D.id and leaves every entity's
\* mention_count as it was after the first call.
C1_UpsertIdempotent ==
  [][ ( /\ enableEntityExtraction
        /\ lastOp.op = "indexNote"
        /\ lastOp'.op = "indexNote"
        /\ lastOp'.id = lastOp.id
        /\ db'.notes[lastOp.id] = db.notes[lastOp.id] )
      => /\ lastOp.id \in DOMAIN db'.notes
         /\ noteCount(db') = noteCount(db)
         /\ db'.entities = db.entities ]_vars

\* C5: after indexNote(D), searchByDateRange(D.date, D.date) with a limit of
\* at least 1 returns exactly one result, whose id is D.id.
C5_UpsertThenDateQuery ==
  lastOp.op = "indexNote" =>
    \A l \in QueryLimits :
      searchByDateRange(db, db.notes[lastOp.id].date, db.notes[lastOp.id].date, l)
        = <<lastOp.id>>

C5_Witness ==
  /\ lastOp.op = "indexNote"
  /\ noteCount(db) = MaxDay
  /\ lastOp.id < MaxDay

\* the id is in no result of any query path of the given store
InNoQueryPath(id, d, ms) ==
  \A l \in QueryLimits :
    /\ \A q \in QueryTexts : id \notin Ids(searchText(ms, q, l))
    /\ \A name \in QueryNames : id \notin Ids(searchByPerson(d, name, l))
    /\ \A tag \in QueryTags : id \notin Ids(searchByTag(d, tag, l))
    /\ \A c \in QueryCategories : id \notin Ids(searchByCategory(d, c, l))
    /\ \A a \in Days, b \in Days : id \notin Ids(searchByDateRange(d, a, b, l))

\* C6: after removeNote(id) the id is in the result of no query path, and
\* noteCount is one less than before if the id was indexed; removeNote of an
\* id that is not indexed changes nothing.
C6_RemoveFromEveryPath ==
  [][ lastOp'.op = "removeNote" =>
        /\ InNoQueryPath(lastOp'.id, db', miniSearch')
        /\ lastOp'.id \notin DOMAIN noteContents'
        /\ IF lastOp'.id \in DOMAIN db.notes
           THEN noteCount(db') = noteCount(db) - 1
           ELSE UNCHANGED <<db, miniSearch, noteContents, disk, git>> ]_vars

\* removeNote has acted on a note whose entity is still there, others remain
C6_Witness ==
  /\ lastOp.op = "removeNote"
  /\ noteCount(db) >= 1
  /\ \E n \in DOMAIN db.entities :
       \A i \in DOMAIN db.notes : ~PersonMatches(db.notes[i], n)

\* C7: over indexNote and removeNote no entity disappears and no
\* mention_count decreases; removeNote leaves the entities unchanged; only
\* rebuildIndex lowers a count or deletes an entity.
C7_EntityMonotone ==
  [][ lastOp'.op \in {"indexNote", "removeNote"} =>
        /\ \A n \in DOMAIN db.entities :
             n \in DOMAIN db'.entities /\ db'.entities[n] >= db.entities[n]
        /\ lastOp'.op = "removeNote" => db'.entities = db.entities ]_vars

C7_Witness ==
  /\ lastOp.op = "removeNote"
  /\ db.notes = <<>>
  /\ \E n \in DOMAIN db.entities : db.entities[n] >= 2

\* what a rebuild over the documents docs has to produce
RebuiltNotes(docs, d, ret) ==
  /\ noteCount(d) = Cardinality(docs)
  /\ ret = Cardinality(docs)
  /\ \A doc \in docs : doc.id \in DOMAIN d.notes /\ d.notes[doc.id] = Row(doc)

RebuiltEntities(docs, d) ==
  /\ DOMAIN d.entities = UNION { MentionNames(doc) : doc \in docs }
  /\ \A n \in DOMAIN d.entities :
       d.entities[n] = Cardinality({ doc \in docs : n \in MentionNames(doc) })

\* C8 as stated: after rebuildIndex over documents with distinct ids,
\* noteCount and the returned count equal the number of documents, the
\* entities are exactly the mentioned names, each counted once per document
\* that mentions it, whatever the order of processing.
C8_RebuildGroundTruth ==
  [][ (pc = "rebuilding" /\ pc' = "idle") =>
        /\ RebuiltNotes(pending, db', lastOp'.id)
        /\ RebuiltEntities(pending, db') ]_vars

\* C8 amended: the entity part holds when entity extraction is enabled (with
\* it disabled the rebuilt entity table is empty).
C8_RebuildGroundTruthAmended ==
  [][ (pc = "rebuilding" /\ pc' = "idle") =>
        /\ RebuiltNotes(pending, db', lastOp'.id)
        /\ IF enableEntityExtraction
           THEN RebuiltEntities(pending, db')
           ELSE db'.entities = <<>> ]_vars

C8_Witness ==
  /\ lastOp.op = "rebuildIndex"
  /\ lastOp.id = MaxDay
  /\ \E n \in DOMAIN db.entities : db.entities[n] = MaxDay

\* C10: an indexNote that fails with a storage error leaves note rows,
\* full-text index, stored bodies, entity counts and links as they were.
C10_UpsertAllOrNothing ==
  [][ lastOp'.op = "indexNoteFailed" =>
        UNCHANGED <<db, miniSearch, noteContents, git>> ]_vars

(***************************************************************************)
(* The retrieval engine over an index rebuilt from a set of documents      *)
(***************************************************************************)
InitSearch ==
  /\ enableEntityExtraction = TRUE
  /\ \E docs \in DocSets :
       \E order \in Orders(docs) :
         LET S == rebuildReindex(rebuildClear(EmptyStore), order, TRUE)
         IN /\ db = S.db
            /\ miniSearch = S.miniSearch
            /\ noteContents = S.noteContents
            /\ disk = S.disk
            /\ lastOp = [op |-> "rebuildIndex", id |-> Cardinality(docs)]
  /\ pc = "idle"
  /\ pending = {}
  /\ query = NoQuery
  /\ out = <<>>
  /\ EnvInit

\* search reads the index and changes nothing in it, so a search issued after
\* another one reaches no state that the first search from the same index
\* does not reach; the model issues each search from the index as built
Search(q) ==
  /\ pc = "idle"
  /\ lastOp.op # "search"
  /\ out' = search(db, miniSearch, q)
  /\ query' = q
  /\ lastOp' = [op |-> "search", id |-> 0]
  /\ UNCHANGED <<enableEntityExtraction, db, miniSearch, noteContents, disk, pc,
                 pending>>
  /\ UNCHANGED envVars

NextSearch == \E q \in Queries : Search(q)

SpecSearch == InitSearch /\ [][NextSearch]_vars

(***************************************************************************)
(* Properties of the retrieval engine                                      *)
(***************************************************************************)
\* the predicates of a query in the order search evaluates them
Present(q) ==
  (IF q.startDate # 0 /\ q.endDate # 0 THEN <<"date">> ELSE <<>>)
  \o (IF q.person # "" THEN <<"person">> ELSE <<>>)
  \o (IF q.tag # "" THEN <<"tag">> ELSE <<>>)
  \o (IF q.category # "" THEN <<"category">> ELSE <<>>)
  \o (IF q.text # "" THEN <<"text">> ELSE <<>>)

\* the result list of one predicate of q, asked of the index on its own
PredicateResult(q, kind, limit) ==
  CASE kind = "date" -> searchByDateRange(db, q.startDate, q.endDate, limit)
    [] kind = "person" -> searchByPerson(db, q.person, limit)
    [] kind = "tag" -> searchByTag(db, q.tag, limit)
    [] kind = "category" -> searchByCategory(db, q.category, limit)
    [] kind = "text" -> searchText(miniSearch, q.text, limit)

EffectiveLimit(q) == IF q.limit # 0 THEN q.limit ELSE maxResults

\* the ids that satisfy every predicate of q
AllMatch(q) ==
  { i \in DOMAIN db.notes :
      \A k \in 1..Len(Present(q)) :
        i \in Ids(PredicateResult(q, Present(q)[k], NoLimit)) }

\* C2: a search with two predicates P1, P2 returns exactly the results of P1
\* whose id is in the result of P2, in P1's order, also when P1's is empty.
C2_IntersectionOfTwo ==
  (lastOp.op = "search" /\ Len(Present(query)) = 2) =>
    LET S1 == PredicateResult(query, Present(query)[1], EffectiveLimit(query))
        S2 == PredicateResult(query, Present(query)[2], EffectiveLimit(query))
    IN out = SelectSeq(S1, LAMBDA r : r \in Ids(S2))

\* C3: in a search with three or more predicates every returned id is in
\* the result set of every predicate of the query.
C3_NeverRestores ==
  (lastOp.op = "search" /\ Len(Present(query)) >= 3) =>
    \A i \in Ids(out) :
      \A k \in 1..Len(Present(query)) :
        i \in Ids(PredicateResult(query, Present(query)[k], NoLimit))

\* C4: in a search with several predicates and limit L, when at most L
\* documents satisfy all predicates, each of them is returned.
C4_TruncationLast ==
  ( /\ lastOp.op = "search"
    /\ Len(Present(query)) >= 2
    /\ Cardinality(AllMatch(query)) <= EffectiveLimit(query) )
  => AllMatch(query) \subseteq Ids(out)

\* split(",").filter(Boolean) of a stored column, as a set
Elements(column) == Tokens(column, ",")

\* C9: searchByPerson(name) returns a document iff name is an element of
\* its mentions, searchByTag(tag) iff tag is an element of its tags.
C9_ExactMembership ==
  \A i \in DOMAIN db.notes :
    /\ \A name \in QueryNames :
         i \in Ids(searchByPerson(db, name, NoLimit))
           <=> ToLower(name) \in Elements(db.notes[i].mentions)
    /\ \A tag \in QueryTags :
         i \in Ids(searchByTag(db, tag, NoLimit))
           <=> tag \in Elements(db.notes[i].tags)

(***************************************************************************)
(* rebuildIndex over a document root that holds an unparseable file        *)
(*                                                                         *)
(* NoteManager.parseNote calls matter(rawContent) with no try/catch, and   *)
(* getAllNotes calls parseNote with none either: a metadata block that     *)
(* gray-matter cannot parse makes getAllNotes reject.  rebuildIndex has    *)
(* cleared the three tables, MiniSearch and noteContents before the call,  *)
(* and it does not catch: the `await` rethrows, no note is indexed and     *)
(* save() is not reached.                                                  *)
(***************************************************************************)
\* rebuildIndex up to the await, `docs` being the parseable files of a root
\* that also holds one unparseable file
RebuildStartBadFile(docs) ==
  /\ pc = "idle"
  /\ SetStore(rebuildClear(Store))
  /\ pc' = "rejecting"
  /\ pending' = docs
  /\ lastOp' = [op |-> "rebuildClear", id |-> 0]
  /\ UNCHANGED <<enableEntityExtraction, query, out>>
  /\ UNCHANGED envVars

\* the await rethrows the parser's exception: rebuildIndex rejects
RebuildReject ==
  /\ pc = "rejecting"
  /\ pc' = "idle"
  /\ pending' = {}
  /\ lastOp' = [op |-> "rebuildFailed", id |-> 0]
  /\ UNCHANGED <<enableEntityExtraction, db, miniSearch, noteContents, disk,
                 query, out>>
  /\ UNCHANGED envVars

NextBadFile ==
  \/ \E note \in AllNotes : IndexNote(note)
  \/ \E noteId \in Days : RemoveNote(noteId)
  \/ \E docs \in DocSets : RebuildStart(docs)
  \/ RebuildFinish
  \/ \E docs \in DocSets : RebuildStartBadFile(docs)
  \/ RebuildReject

SpecBadFile == Init /\ [][NextBadFile]_vars

\* C11: a rebuild over a document root in which one document has an
\* unparseable metadata block still completes, and when it ends the index
\* holds every parseable document of the root (noteCount = their number): the
\* bad file never leaves the index cleared.
C11_BadFileDoesNotAbort ==
  [][pc = "rejecting" /\ pc' = "idle"
       => /\ lastOp'.op = "rebuildIndex"
          /\ noteCount(db') = Cardinality(pending)
          /\ DOMAIN db'.notes = {n.id : n \in pending}]_vars

(***************************************************************************)
(* The query parser, SearchEngine.parseQuery                               *)
(*                                                                         *)
(* The regular expressions of parseQuery are sequences of the elements     *)
(* below; none of them needs backtracking (each element's characters are   *)
(* disjoint from what follows it), so a match is found by trying the       *)
(* elements left to right at each start position, leftmost start first.    *)
(***************************************************************************)
IsDigit(c) == c \in {"0", "1", "2", "3", "4", "5", "6", "7", "8", "9"}

IsLetter(c) ==
  LowerChar(c) \in {"a", "b", "c", "d", "e", "f", "g", "h", "i", "j", "k", "l",
                    "m", "n", "o", "p", "q", "r", "s", "t", "u", "v", "w", "x",
                    "y", "z"}

\* \w
IsWordChar(c) == IsLetter(c) \/ IsDigit(c) \/ c = "_"

\* \s
IsSpace(c) == c \in {" ", "\t", "\n", "\r"}

InClass(c, class) ==
  CASE class = "word" -> IsWordChar(c)
    [] class = "space" -> IsSpace(c)
    [] class = "digit" -> IsDigit(c)
    [] class = "name" -> IsWordChar(c) \/ c = "-"

\* the position after the longest run of `class` characters that starts at i
RECURSIVE RunEnd(_, _, _)
RunEnd(s, i, class) ==
  IF i <= Len(s) /\ InClass(SubSeq(s, i, i), class)
  THEN RunEnd(s, i + 1, class)
  ELSE i

\* \d{4}-\d{2}-\d{2} at position i
IsDateAt(s, i) ==
  /\ i + 9 <= Len(s)
  /\ \A k \in {0, 1, 2, 3, 5, 6, 8, 9} : IsDigit(SubSeq(s, i + k, i + k))
  /\ SubSeq(s, i + 4, i + 4) = "-"
  /\ SubSeq(s, i + 7, i + 7) = "-"

\* \b between the characters at i - 1 and i
IsWordAt(s, i) == i >= 1 /\ i <= Len(s) /\ IsWordChar(SubSeq(s, i, i))
Boundary(s, i) == IsWordAt(s, i - 1) # IsWordAt(s, i)

\* a literal at position i; under the i flag the literal is given in lower case
LitAt(s, i, lit, ci) ==
  /\ i + Len(lit) - 1 <= Len(s)
  /\ LET got == SubSeq(s, i, i + Len(lit) - 1)
     IN (IF ci THEN ToLower(got) ELSE got) = lit

Lit(v) == [t |-> "lit", v |-> v]
Opt(v) == [t |-> "opt", v |-> v]
Some(class) == [t |-> "some", v |-> class]
DateEl == [t |-> "date", v |-> ""]
WordBoundary == [t |-> "b", v |-> ""]

\* the position after a match of re[k..] that starts at i, 0 when none
RECURSIVE MatchAt(_, _, _, _, _)
MatchAt(s, i, re, k, ci) ==
  IF k > Len(re) THEN i
  ELSE LET e == re[k]
       IN CASE e.t = "lit" ->
                 IF LitAt(s, i, e.v, ci)
                 THEN MatchAt(s, i + Len(e.v), re, k + 1, ci) ELSE 0
            [] e.t = "opt" ->
                 IF LitAt(s, i, e.v, ci)
                 THEN MatchAt(s, i + Len(e.v), re, k + 1, ci)
                 ELSE MatchAt(s, i, re, k + 1, ci)
            [] e.t = "some" ->
                 LET j == RunEnd(s, i, e.v)
                 IN IF j > i THEN MatchAt(s, j, re, k + 1, ci) ELSE 0
            [] e.t = "date" ->
                 IF IsDateAt(s, i) THEN MatchAt(s, i + 10, re, k + 1, ci) ELSE 0
            [] e.t = "b" ->
                 IF Boundary(s, i) THEN MatchAt(s, i, re, k + 1, ci) ELSE 0

NoMatch == [start |-> 0, end |-> 0]

\* the first alternative of alts that matches at i
RECURSIVE AltAt(_, _, _, _, _)
AltAt(s, i, alts, a, ci) ==
  IF a > Len(alts) THEN 0
  ELSE LET j == MatchAt(s, i, alts[a], 1, ci)
       IN IF j # 0 THEN j ELSE AltAt(s, i, alts, a + 1, ci)

\* String.prototype.match / RegExp.prototype.test for a pattern without the g
\* flag: the leftmost match, [start, end)
RECURSIVE ExecFrom(_, _, _, _)
ExecFrom(s, i, alts, ci) ==
  IF i > Len(s) THEN NoMatch
  ELSE LET j == AltAt(s, i, alts, 1, ci)
       IN IF j # 0 THEN [start |-> i, end |-> j]
          ELSE ExecFrom(s, i + 1, alts, ci)

Exec(s, alts, ci) == ExecFrom(s, 1, alts, ci)

\* String.prototype.trim
RECURSIVE TrimEnd(_)
TrimEnd(s) ==
  IF Len(s) > 0 /\ IsSpace(SubSeq(s, Len(s), Len(s)))
  THEN TrimEnd(SubSeq(s, 1, Len(s) - 1)) ELSE s

Trim(s) == TrimEnd(SubSeq(s, RunEnd(s, 1, "space"), Len(s)))

\* query.replace(pattern, "").trim() for the match m of the pattern
Strip(s, m) == Trim(SubSeq(s, 1, m.start - 1) \o SubSeq(s, m.end, Len(s)))

DigitValue(c) ==
  CASE c = "0" -> 0 [] c = "1" -> 1 [] c = "2" -> 2 [] c = "3" -> 3
    [] c = "4" -> 4 [] c = "5" -> 5 [] c = "6" -> 6 [] c = "7" -> 7
    [] c = "8" -> 8 [] c = "9" -> 9

\* parseInt(s, 10) of a run of digits
RECURSIVE ParseInt(_)
ParseInt(s) ==
  IF Len(s) = 0 THEN 0
  ELSE 10 * ParseInt(SubSeq(s, 1, Len(s) - 1))
       + DigitValue(SubSeq(s, Len(s), Len(s)))

\* The model's calendar is January 2025: day d is the date 2025-01-dd and a
\* date string stands for its day of the month.  Day 0 is no date (a field
\* that is absent), so the clock and the inputs are chosen such that no range
\* computed from them starts or ends on day 0.
DigitChar(n) == SubSeq("0123456789", n + 1, n + 1)
IsoOfDay(d) == "2025-01-" \o DigitChar(d \div 10) \o DigitChar(d % 10)
DayOfIso(s) == ParseInt(SubSeq(s, 9, 10))

PersonRe == << <<Lit("@"), Some("word")>> >>
TagRe == << <<Lit("#"), Some("word")>> >>
CategoryRe == << <<Lit("category:"), Some("word")>> >>
FromToRe ==
  << <<Lit("from"), Some("space"), DateEl, Some("space"), Lit("to"),
       Some("space"), DateEl>> >>
BetweenAndRe ==
  << <<Lit("between"), Some("space"), DateEl, Some("space"), Lit("and"),
       Some("space"), DateEl>> >>
dateRangePatterns == <<FromToRe, BetweenAndRe>>

Word(v) == <<WordBoundary, Lit(v), WordBoundary>>
PastNDaysRe ==
  << <<WordBoundary, Lit("past "), Some("digit"), Lit(" day"), Opt("s"),
       WordBoundary>> >>
\* getRange's own pattern has no \b
PastNDaysInner == << <<Lit("past "), Some("digit"), Lit(" day"), Opt("s")>> >>

\* each pattern with its range, as days back from today: [start, end]; the
\* last pattern's start is read from the query by PastNDays
relativePatterns ==
  << [pattern |-> <<Word("today")>>, start |-> 0, end |-> 0],
     [pattern |-> <<Word("yesterday")>>, start |-> 1, end |-> 1],
     [pattern |-> <<Word("this week"), Word("past week"), Word("last 7 days")>>,
      start |-> 7, end |-> 0],
     [pattern |-> <<Word("last week")>>, start |-> 14, end |-> 7],
     [pattern |-> <<Word("this month"), Word("past month"),
                    Word("last 30 days")>>,
      start |-> 30, end |-> 0],
     [pattern |-> PastNDaysRe, start |-> 0, end |-> 0] >>

\* the range of the `past N days` pattern: N is read from the query again
PastNDays(q) ==
  LET m == Exec(q, PastNDaysInner, TRUE)
  IN IF m.start = 0 THEN 7
     ELSE ParseInt(SubSeq(q, m.start + 5, RunEnd(q, m.start + 5, "digit") - 1))

\* the state of parseQuery between its sections: the query string left and
\* the fields set so far
ExtractPerson_KeepsCase(st) ==
  LET m == Exec(st.q, PersonRe, FALSE)
  IN IF m.start = 0 THEN st
     ELSE [st EXCEPT !.person = SubSeq(st.q, m.start + 1, m.end - 1),
                     !.q = Strip(st.q, m)]

ExtractPerson(st) ==
  LET m == Exec(st.q, PersonRe, FALSE)
  IN IF m.start = 0 THEN st
     ELSE [st EXCEPT !.person = ToLower(SubSeq(st.q, m.start + 1, m.end - 1)),
                     !.q = Strip(st.q, m)]

ExtractTag(st) ==
  LET m == Exec(st.q, TagRe, FALSE)
  IN IF m.start = 0 THEN st
     ELSE [st EXCEPT !.tag = SubSeq(st.q, m.start + 1, m.end - 1),
                     !.q = Strip(st.q, m)]

ExtractCategory(st) ==
  LET m == Exec(st.q, CategoryRe, TRUE)
  IN IF m.start = 0 THEN st
     ELSE [st EXCEPT !.category = SubSeq(st.q, m.start + 9, m.end - 1),
                     !.q = Strip(st.q, m)]

\* the loop over dateRangePatterns from pattern k on, with its break
RECURSIVE ExtractExplicit(_, _)
ExtractExplicit(st, k) ==
  IF k > Len(dateRangePatterns) THEN st
  ELSE LET m == Exec(st.q, dateRangePatterns[k], TRUE)
           first == RunEnd(st.q, m.start + Len(dateRangePatterns[k][1][1].v),
                           "space")
       IN IF m.start = 0 THEN ExtractExplicit(st, k + 1)
          ELSE [st EXCEPT
                  !.startDate = DayOfIso(SubSeq(st.q, first, first + 9)),
                  !.endDate = DayOfIso(SubSeq(st.q, m.end - 10, m.end - 1)),
                  !.q = Strip(st.q, m)]

\* the loop over relativePatterns from pattern k on, with its break; it does
\* not look at whether the explicit loop has set a range
RECURSIVE ExtractRelative(_, _)
ExtractRelative(st, k) ==
  IF k > Len(relativePatterns) THEN st
  ELSE LET r == relativePatterns[k]
           m == Exec(st.q, r.pattern, TRUE)
           back == IF k = Len(relativePatterns) THEN PastNDays(st.q)
                   ELSE r.start
       IN IF m.start = 0 THEN ExtractRelative(st, k + 1)
          ELSE [st EXCEPT !.startDate = Today - back,
                          !.endDate = Today - r.end,
                          !.q = Strip(st.q, m)]

\* parseQuery(query): the ParsedQuery without its originalQuery; it never
\* sets a limit
parseQuery(queryString) ==
  LET st0 == [q |-> queryString, person |-> "", tag |-> "", category |-> "",
              startDate |-> 0, endDate |-> 0]
      st == ExtractRelative(
              ExtractExplicit(
                ExtractCategory(ExtractTag(ExtractPerson(st0))), 1), 1)
  IN [text |-> Trim(st.q), person |-> st.person, tag |-> st.tag,
      category |-> st.category, startDate |-> st.startDate,
      endDate |-> st.endDate, limit |-> 0]

(***************************************************************************)
(* parseQuery on query strings composed of filter fragments and free words *)
(***************************************************************************)
MaxWords == 2      \* free words in a query string

WordPool == <<"lunch", "notes", "plans", "trip">>

Piece(kind, text, value, start, end) ==
  [kind |-> kind, text |-> text, value |-> value, start |-> start, end |-> end]

NoPiece == Piece("none", "", "", 0, 0)
WordPiece(i) == Piece("word", WordPool[i], "", 0, 0)

PersonPieces == {NoPiece, Piece("person", "@Hannah", "hannah", 0, 0)}
TagPieces == {NoPiece, Piece("tag", "#Idea", "Idea", 0, 0)}
CategoryPieces == {NoPiece, Piece("category", "Category:Work", "Work", 0, 0)}

\* an explicit range names its two days
ExplicitPieces ==
  {NoPiece,
   Piece("explicit", "from " \o IsoOfDay(1) \o " to " \o IsoOfDay(MaxDay), "",
         1, MaxDay),
   Piece("explicit",
         "Between " \o IsoOfDay(MaxDay) \o "  and " \o IsoOfDay(MaxDay), "",
         MaxDay, MaxDay)}

\* a relative expression names its range as days back from today
RelativePieces ==
  {NoPiece,
   Piece("relative", "today", "", 0, 0),
   Piece("relative", "Yesterday", "", 1, 1),
   Piece("relative", "last 7 days", "", 7, 0),
   Piece("relative", "last week", "", 14, 7),
   Piece("relative", "this month", "", 30, 0),
   Piece("relative", "past 5 days", "", 5, 0)}

\* free words and fragments in turn, the absent ones left out
Layout(n, p, t, c, e, r) ==
  LET word(i) == IF i <= n THEN WordPiece(i) ELSE NoPiece
      slots == <<word(1), p, word(2), t, word(3), c, word(4), e, r>>
  IN SelectSeq(slots, LAMBDA x : x.kind # "none")

Layouts ==
  { Layout(n, p, t, c, e, r) :
      n \in 0..MaxWords, p \in PersonPieces, t \in TagPieces,
      c \in CategoryPieces, e \in ExplicitPieces, r \in RelativePieces }

Rotate(seq, k) == SubSeq(seq, k + 1, Len(seq)) \o SubSeq(seq, 1, k)

\* the query strings, each as the sequence of its pieces
Plans == UNION { { Rotate(l, k) : k \in 0..(Len(l) - 1) } \cup {l} : l \in Layouts }

\* the query string: the pieces separated by one space
Render(plan) == Join([i \in 1..Len(plan) |-> plan[i].text], " ")

InitParse == Init /\ enableEntityExtraction = TRUE

\* parseQuery reads the clock and nothing else: a call after another call
\* reaches no state the first call does not reach
ParseQuery(plan) ==
  /\ lastOp.op # "parseQuery"
  /\ raw' = plan
  /\ query' = parseQuery(Render(plan))
  /\ lastOp' = [op |-> "parseQuery", id |-> 0]
  /\ UNCHANGED <<enableEntityExtraction, db, miniSearch, noteContents, disk, pc,
                 pending, out, today, snip, snippets, files, now, events, watched, git>>

NextParse == \E plan \in Plans : ParseQuery(plan)

SpecParse == InitParse /\ [][NextParse]_vars

Has(plan, kind) == \E i \in 1..Len(plan) : plan[i].kind = kind
The(plan, kind) ==
  IF Has(plan, kind)
  THEN plan[CHOOSE i \in 1..Len(plan) : plan[i].kind = kind]
  ELSE NoPiece

\* C12: for a query holding both an explicit range and a relative
\* expression, the parsed startDate and endDate are the two days of the
\* explicit range.
C12_ExplicitBeforeRelative ==
  lastOp.op = "parseQuery" /\ Has(raw, "explicit") /\ Has(raw, "relative")
    => /\ query.startDate = The(raw, "explicit").start
       /\ query.endDate = The(raw, "explicit").end

\* what is left of the query string when its fragments are taken out
Remaining(plan) ==
  Trim(Join([i \in 1..Len(plan) |->
               IF plan[i].kind = "word" THEN plan[i].text ELSE ""], " "))

\* the range a query with at most one date expression asks for
ExpectedRange(plan) ==
  IF Has(plan, "explicit")
  THEN <<The(plan, "explicit").start, The(plan, "explicit").end>>
  ELSE IF Has(plan, "relative")
  THEN <<Today - The(plan, "relative").start, Today - The(plan, "relative").end>>
  ELSE <<0, 0>>

Todays == {1, MaxDay, MaxDay + RecentDays}

InitRecent ==
  /\ enableEntityExtraction = TRUE
  /\ \E docs \in DocSets :
       \E order \in Orders(docs) :
         LET S == rebuildReindex(rebuildClear(EmptyStore), order, TRUE)
         IN /\ db = S.db
            /\ miniSearch = S.miniSearch
            /\ noteContents = S.noteContents
            /\ disk = S.disk
            /\ lastOp = [op |-> "rebuildIndex", id |-> Cardinality(docs)]
  /\ pc = "idle"
  /\ pending = {}
  /\ query = NoQuery
  /\ out = <<>>
  /\ today \in Todays
  /\ raw = <<>>
  /\ snip = NoSnip
  /\ snippets = <<>>
  /\ files = [d \in Days |-> NoFile]
  /\ now = 0
  /\ events = {}
  /\ watched = NoWatched
  /\ git = NoGit

\* the SearchQuery objects without a predicate
RecentQueries == { [NoQuery EXCEPT !.limit = l] : l \in {0} \cup Limits }

NextRecent == \E q \in RecentQueries : Search(q)

SpecRecent == InitRecent /\ [][NextRecent]_vars

\* the indexed documents dated today - 7 .. today
RecentIds == { i \in DOMAIN db.notes :
                 /\ db.notes[i].date >= today - 7
                 /\ db.notes[i].date <= today }

\* C14: a search whose query has no text, person, tag, category or date
\* range returns the indexed documents dated today - 7 .. today, newest
\* first, cut only by the final limit: as many of them as the limit allows,
\* and none of those left out is newer than one returned.
C14_RecentView ==
  lastOp.op = "search" /\ Present(query) = <<>>
    => /\ Len(out) = Min(EffectiveLimit(query), Cardinality(RecentIds))
       /\ \A k \in 1..Len(out) : out[k] \in RecentIds
       /\ \A k \in 1..(Len(out) - 1) :
            db.notes[out[k]].date > db.notes[out[k + 1]].date
       /\ \A i \in RecentIds \ Ids(out), k \in 1..Len(out) :
            db.notes[i].date < db.notes[out[k]].date

\* the view was asked for a week after the calendar's last day: every day is
\* indexed, and only the last day's document is within the window
C14_Witness ==
  /\ lastOp.op = "search" /\ Present(query) = <<>>
  /\ Len(out) = 1 /\ query.limit = 0
  /\ DOMAIN db.notes = Days
  /\ today = MaxDay + RecentDays

(***************************************************************************)
(* Snippets, Indexer.extractSnippet                                        *)
(*                                                                         *)
(* Positions are JavaScript's: the first character is at 0, indexOf and    *)
(* lastIndexOf return -1 when there is no occurrence, slice(a, b) is the   *)
(* characters a .. b - 1.                                                  *)
(***************************************************************************)
snippetLength == 200

Slice(s, a, b) == SubSeq(s, a + 1, b)

\* the positions at which p occurs in s
Occurrences(s, p) ==
  { i \in 0..(Len(s) - Len(p)) : Slice(s, i, i + Len(p)) = p }

\* s.indexOf(p, from)
IndexOf(s, p, from) ==
  LET at == { i \in Occurrences(s, p) : i >= from }
  IN IF at = {} THEN -1 ELSE CHOOSE x \in at : \A y \in at : x <= y

\* s.lastIndexOf(p, from): the last occurrence that starts at from or before
LastIndexOf(s, p, from) ==
  LET at == { i \in Occurrences(s, p) : i <= from }
  IN IF at = {} THEN -1 ELSE CHOOSE x \in at : \A y \in at : x >= y

Max(a, b) == IF a > b THEN a ELSE b

\* lowerQuery.split(/\s+/).filter(t => t.length > 2)
SnippetTerms(queryText) ==
  { t \in Tokens(ToLower(queryText), " ") : Len(t) > 2 }

\* the first occurrence of any term in the lower-cased content, -1 if none
BestPos(lowerContent, terms) ==
  LET found == { IndexOf(lowerContent, t, 0) : t \in terms } \ {-1}
  IN IF found = {} THEN -1
     ELSE CHOOSE x \in found : \A y \in found : x <= y

extractSnippet(content, queryText) ==
  LET lowerContent == ToLower(content)
      bestPos == BestPos(lowerContent, SnippetTerms(queryText))
      halfLength == snippetLength \div 2
      start0 == Max(0, bestPos - halfLength)
      end0 == Min(Len(content), bestPos + halfLength)
      spaceAfter == IndexOf(content, " ", start0)
      start == IF start0 > 0 /\ spaceAfter # -1 /\ spaceAfter < bestPos
               THEN spaceAfter + 1 ELSE start0
      spaceBefore == LastIndexOf(content, " ", end0)
      end == IF end0 < Len(content) /\ spaceBefore > bestPos
             THEN spaceBefore ELSE end0
  IN IF bestPos = -1
     THEN Slice(content, 0, Min(Len(content), snippetLength))
          \o (IF Len(content) > snippetLength THEN "..." ELSE "")
     ELSE (IF start > 0 THEN "..." ELSE "")
          \o Slice(content, start, end)
          \o (IF end < Len(content) THEN "..." ELSE "")

\* Bodies: a term between two runs of filler words
RECURSIVE Filler(_)
Filler(n) == IF n = 0 THEN "" ELSE "lorem " \o Filler(n - 1)

FillerWords == {0, 4, 20, 36}
BodyTerms == {"Hannah", "AI", "lunch"}

Bodies ==
  { Filler(pre) \o t \o (IF post = 0 THEN "" ELSE " " \o Filler(post)) :
      pre \in FillerWords, t \in BodyTerms, post \in FillerWords }

SnippetQueries == {"hannah", "ai", "Lunch", "ai hannah", "to lunch", "ipsum"}

\* extractSnippet is a pure function: one call from the initial state
ExtractSnippet(content, queryText) ==
  /\ lastOp.op # "extractSnippet"
  /\ snip' = [content |-> content, query |-> queryText,
              snippet |-> extractSnippet(content, queryText)]
  /\ lastOp' = [op |-> "extractSnippet", id |-> 0]
  /\ UNCHANGED <<enableEntityExtraction, db, miniSearch, noteContents, disk, pc,
                 pending, query, out, today, raw, snippets, files, now, events,
                 watched, git>>

NextSnippet ==
  \E content \in Bodies, queryText \in SnippetQueries :
    ExtractSnippet(content, queryText)

SpecSnippet == InitParse /\ [][NextSnippet]_vars

\* the snippet without its leading and trailing "..." markers
Unmarked(snippet) ==
  LET a == IF Len(snippet) >= 3 /\ SubSeq(snippet, 1, 3) = "..."
           THEN SubSeq(snippet, 4, Len(snippet)) ELSE snippet
  IN IF Len(a) >= 3 /\ SubSeq(a, Len(a) - 2, Len(a)) = "..."
     THEN SubSeq(a, 1, Len(a) - 3) ELSE a

\* the terms of the query that occur in the body, whatever their case
OccurringTerms(content, queryText) ==
  { t \in Tokens(ToLower(queryText), " ") : Contains(ToLower(content), t) }

\* C15: when a term of the text query occurs in the body, the snippet
\* without its "..." markers is a contiguous piece of the body, it contains
\* a term of the query that occurs in the body, and the snippet is no longer
\* than the window of 200 characters plus the two markers.
C15_SnippetContainsTerm ==
  lastOp.op = "extractSnippet" /\ OccurringTerms(snip.content, snip.query) # {}
    => /\ Contains(snip.content, Unmarked(snip.snippet))
       /\ \E t \in OccurringTerms(snip.content, snip.query) :
            Contains(ToLower(Unmarked(snip.snippet)), t)
       /\ Len(snip.snippet) <= snippetLength + 6

(***************************************************************************)
(* The snippets of a result list                                           *)
(***************************************************************************)
\* parsed.text || parsed.person || parsed.tag
SnippetTerm(q) ==
  IF q.text # "" THEN q.text ELSE IF q.person # "" THEN q.person ELSE q.tag

\* substr(n.content, 1, 200): the snippet of a row found by date or category
RowSnippet(content) == Slice(content, 0, Min(Len(content), snippetLength))

\* Indexer.regenerateSnippets: every result gets the snippet of its stored
\* body around the term
regenerateSnippets(nc, ids, term) ==
  [i \in 1..Len(ids) |-> extractSnippet(nc[ids[i]], term)]

\* the snippets SearchEngine.search returns with the ids
searchSnippets(d, nc, ids, q) ==
  IF SnippetTerm(q) # "" /\ Len(ids) > 0
  THEN regenerateSnippets(nc, ids, SnippetTerm(q))
  ELSE [i \in 1..Len(ids) |-> RowSnippet(d.notes[ids[i]].content)]

\* documents with bodies longer than the window
LongNotes(d) ==
  { [id |-> d, date |-> d, title |-> "notes", category |-> "work",
     tags |-> <<"meeting">>, mentions |-> <<"hannah", "al">>,
     content |-> Filler(36) \o "Hannah and Al had lunch"],
    [id |-> d, date |-> d, title |-> "notes", category |-> "work",
     tags |-> <<"idea">>, mentions |-> <<"hannah">>,
     content |-> "lunch with Hannah " \o Filler(36)],
    [id |-> d, date |-> d, title |-> "notes", category |-> "personal",
     tags |-> <<"meeting">>, mentions |-> <<"al">>,
     content |-> "a plain day"] }

LongDocSets ==
  { S \in SUBSET (UNION { LongNotes(d) : d \in Days }) :
      \A a \in S, b \in S : a.id = b.id => a = b }

InitSnippets ==
  /\ enableEntityExtraction = TRUE
  /\ \E docs \in LongDocSets :
       LET order == CHOOSE o \in Orders(docs) : TRUE
           S == rebuildReindex(rebuildClear(EmptyStore), order, TRUE)
       IN /\ db = S.db
          /\ miniSearch = S.miniSearch
          /\ noteContents = S.noteContents
          /\ disk = S.disk
          /\ lastOp = [op |-> "rebuildIndex", id |-> Cardinality(docs)]
  /\ pc = "idle"
  /\ pending = {}
  /\ query = NoQuery
  /\ out = <<>>
  /\ EnvInit

SnippetSearches ==
  { [text |-> t, person |-> p, tag |-> g, category |-> "",
     startDate |-> r[1], endDate |-> r[2], limit |-> 0] :
      t \in {"", "lunch"}, p \in {"", "hannah", "al"}, g \in {"", "meeting"},
      r \in {<<0, 0>>, <<1, MaxDay>>} }

\* SearchEngine.search with the snippets of its results
SearchSnippets(q) ==
  /\ pc = "idle"
  /\ lastOp.op # "search"
  /\ out' = search(db, miniSearch, q)
  /\ snippets' = searchSnippets(db, noteContents, out', q)
  /\ query' = q
  /\ lastOp' = [op |-> "search", id |-> 0]
  /\ UNCHANGED <<enableEntityExtraction, db, miniSearch, noteContents, disk, pc,
                 pending, today, raw, snip, files, now, events, watched, git>>

NextSnippets == \E q \in SnippetSearches : SearchSnippets(q)

SpecSnippets == InitSnippets /\ [][NextSnippets]_vars

\* C21: the snippet of every result is generated around the first available
\* term in the order free text, person, tag, whichever predicate produced
\* the result: it contains a word of that term when one occurs in the body,
\* and when none occurs it is the leading window of the body, with a
\* trailing "..." only if the body is longer than the window.
C21_SnippetTermPriority ==
  lastOp.op = "search" /\ SnippetTerm(query) # ""
    => \A i \in 1..Len(out) :
         LET body == noteContents[out[i]]
             occurring == OccurringTerms(body, SnippetTerm(query))
         IN IF occurring # {}
            THEN \E t \in occurring : Contains(ToLower(Unmarked(snippets[i])), t)
            ELSE snippets[i] = RowSnippet(body)
                   \o (IF Len(body) > snippetLength THEN "..." ELSE "")

(***************************************************************************)
(* The search_notes tool of the MCP server                                 *)
(***************************************************************************)
\* case "search_notes": input = SearchNotesSchema.parse(args), then
\* this.searchEngine.search(input.query); input.limit is not read
search_notes(d, ms, input) == search(d, ms, parseQuery(input.query))

\* the query strings given to the tool: at most one fragment or word
ToolPlans ==
  {<<>>} \cup { <<piece>> : piece \in ({WordPiece(1)} \cup PersonPieces \cup TagPieces
                                       \cup CategoryPieces \cup ExplicitPieces
                                       \cup RelativePieces) \ {NoPiece} }

\* the tool reads the index and changes nothing in it: each call is made from
\* the index as built.  lastOp.id records the limit argument, 0 when absent.
SearchNotes(plan, limit) ==
  /\ pc = "idle"
  /\ lastOp.op \notin {"search", "search_notes"}
  /\ raw' = plan
  /\ out' = search_notes(db, miniSearch, [query |-> Render(plan), limit |-> limit])
  /\ lastOp' = [op |-> "search_notes", id |-> limit]
  /\ UNCHANGED <<enableEntityExtraction, db, miniSearch, noteContents, disk, pc,
                 pending, query, today, snip, snippets, files, now, events, watched, git>>

\* SearchQuery objects given to SearchEngine.search directly
DirectQueries == { q \in Queries : q.text = "" /\ q.tag = "" /\ q.category = "" }

NextTool ==
  \/ \E plan \in ToolPlans, limit \in {0} \cup Limits : SearchNotes(plan, limit)
  \/ \E q \in DirectQueries : lastOp.op # "search_notes" /\ Search(q)

SpecTool == InitSearch /\ [][NextTool]_vars

\* C16: a search_notes call with limit = n returns at most n results (at
\* most maxResults when no limit is given), and SearchEngine.search never
\* returns more results than the limit of its query (or maxResults).
C16_LimitHonored ==
  /\ lastOp.op = "search_notes"
       => Len(out) <= (IF lastOp.id # 0 THEN lastOp.id ELSE maxResults)
  /\ lastOp.op = "search" => Len(out) <= EffectiveLimit(query)

(***************************************************************************)
(* The note files, NoteManager                                             *)
(*                                                                         *)
(* A file is modelled by what gray-matter reads from it: the metadata      *)
(* block (data) and the text after it (content); the YAML text itself is   *)
(* not modelled.  An absent metadata field is "", <<>> or 0.  An instant   *)
(* is the number of clock ticks since the process started.                 *)
(***************************************************************************)
MaxClock == 3      \* createNote calls in a behaviour

defaultCategory == "personal"

NoData == [title |-> "", category |-> "", tags |-> <<>>, created |-> 0,
           updated |-> 0, mentions |-> <<>>]

\* matter.stringify(content, data): the text is written with a final newline
Stringify(content, data) ==
  [exists |-> TRUE, malformed |-> FALSE, data |-> data,
   content |-> IF Len(content) > 0 /\ SubSeq(content, Len(content), Len(content)) = "\n"
               THEN content ELSE content \o "\n"]

\* the array without its repeated elements: [...new Set(array)]
RECURSIVE Unique(_)
Unique(seq) ==
  IF Len(seq) = 0 THEN <<>>
  ELSE LET front == Unique(SubSeq(seq, 1, Len(seq) - 1))
           last == seq[Len(seq)]
       IN IF \E i \in 1..Len(front) : front[i] = last THEN front
          ELSE Append(front, last)

\* content.match(/sigil[\w-]+/g), each match without its sigil
RECURSIVE MatchAll(_, _, _)
MatchAll(s, i, sigil) ==
  IF i > Len(s) THEN <<>>
  ELSE LET j == RunEnd(s, i + 1, "name")
       IN IF SubSeq(s, i, i) = sigil /\ j > i + 1
          THEN <<SubSeq(s, i + 1, j - 1)>> \o MatchAll(s, j, sigil)
          ELSE MatchAll(s, i + 1, sigil)

extractMentions(content) ==
  LET m == MatchAll(content, 1, "@")
  IN Unique([i \in 1..Len(m) |-> ToLower(m[i])])

extractTags(content) == Unique(MatchAll(content, 1, "#"))

\* Date.prototype.toTimeString().slice(0, 5) of an instant
formatTime(t) == "09:0" \o DigitChar(t % 10)

formatNoteEntry(entry) ==
  Join(<<"## " \o entry.time \o " - " \o entry.title>>
       \o (IF entry.category # defaultCategory
           THEN <<"**Category:** " \o entry.category>> ELSE <<>>)
       \o <<"", entry.content>>
       \o (IF Len(entry.tags) > 0
           THEN <<"", "Tags: " \o Join([i \in 1..Len(entry.tags) |->
                                          "#" \o entry.tags[i]], " ")>>
           ELSE <<>>),
       "\n")

\* NoteManager.parseNote of a file that exists, read at instant t
parseNote(file, date, t) ==
  [id |-> date, date |-> date,
   title |-> IF file.data.title # "" THEN file.data.title
             ELSE "Notes for " \o IsoOfDay(date),
   category |-> IF file.data.category # "" THEN file.data.category
                ELSE defaultCategory,
   tags |-> file.data.tags,
   created |-> IF file.data.created # 0 THEN file.data.created ELSE t,
   updated |-> IF file.data.updated # 0 THEN file.data.updated ELSE t,
   mentions |-> file.data.mentions,
   content |-> Trim(file.content)]

\* the NoteEntry createNote builds from its options at instant t
EntryOf(options, t) ==
  [time |-> formatTime(t),
   category |-> IF options.category # "" THEN options.category
                ELSE defaultCategory,
   title |-> options.title,
   content |-> options.content,
   tags |-> Unique(options.tags \o extractTags(options.content)),
   mentions |-> extractMentions(options.content)]

\* the file createNote writes over an existing note
AppendedFile_DropsOldTags(existingNote, entry, t) ==
  Stringify(existingNote.content \o "\n\n" \o formatNoteEntry(entry),
            [title |-> existingNote.title, category |-> existingNote.category,
             tags |-> entry.tags,
             created |-> existingNote.created, updated |-> t,
             mentions |-> Unique(existingNote.mentions \o entry.mentions)])

AppendedFile(existingNote, entry, t) ==
  Stringify(existingNote.content \o "\n\n" \o formatNoteEntry(entry),
            [title |-> existingNote.title, category |-> existingNote.category,
             tags |-> Unique(existingNote.tags \o entry.tags),
             created |-> existingNote.created, updated |-> t,
             mentions |-> Unique(existingNote.mentions \o entry.mentions)])

\* the file createNote writes when the date has no note
NewFile(date, entry, t) ==
  Stringify(formatNoteEntry(entry),
            [title |-> "Notes for " \o IsoOfDay(date),
             category |-> defaultCategory, tags |-> entry.tags,
             created |-> t, updated |-> t, mentions |-> entry.mentions])

\* the root after createNote(options) at instant t
createNote(root, options, t) ==
  LET date == options.date
      entry == EntryOf(options, t)
  IN [root EXCEPT ![date] =
        IF root[date].exists
        THEN AppendedFile(parseNote(root[date], date, t), entry, t)
        ELSE NewFile(date, entry, t)]

\* what create_note is called with, but for the date
EntryOptions ==
  { [title |-> "standup", content |-> "met @Hannah and @bob-lee #idea",
     category |-> "", tags |-> <<>>],
    [title |-> "call", content |-> "called @hannah",
     category |-> "work", tags |-> <<"idea", "follow-up">>],
    [title |-> "walk", content |-> "a quiet day",
     category |-> "", tags |-> <<>>] }

CreateOptions ==
  { [title |-> o.title, content |-> o.content, category |-> o.category,
     tags |-> o.tags, date |-> d] : o \in EntryOptions, d \in Days }

\* createNote; the clock ticks between two calls
CreateNote(options) ==
  /\ now < MaxClock
  /\ files' = createNote(files, options, now + 1)
  /\ now' = now + 1
  /\ lastOp' = [op |-> "createNote", id |-> options.date]
  /\ UNCHANGED <<enableEntityExtraction, db, miniSearch, noteContents, disk, pc,
                 pending, query, out, today, raw, snip, snippets, events, watched, git>>

NextNotes == \E options \in CreateOptions : CreateNote(options)

SpecNotes == InitParse /\ [][NextNotes]_vars

Set(seq) == { seq[i] : i \in 1..Len(seq) }

\* C17: after createNote on a date that already has a note, the note keeps
\* its id, title and created instant, its body is the previous body, an
\* empty line and the new entry, its tags and mentions are the previous ones
\* united with the entry's, and updated is not earlier than created.
C17_CreateAppends ==
  [][\A d \in Days :
       lastOp'.op = "createNote" /\ lastOp'.id = d /\ now' # now
       /\ files[d].exists
       => LET old == parseNote(files[d], d, now')
              new == parseNote(files'[d], d, now')
          IN /\ files'[d].exists
             /\ new.id = old.id /\ new.title = old.title
             /\ new.created = old.created
             /\ new.updated >= new.created
             /\ \E o \in CreateOptions :
                  LET entry == EntryOf(o, now')
                  IN /\ o.date = d
                     /\ new.content
                          = old.content \o "\n\n" \o formatNoteEntry(entry)
                     /\ Set(new.tags) = Set(old.tags) \cup Set(entry.tags)
                     /\ Set(new.mentions)
                          = Set(old.mentions) \cup Set(entry.mentions)]_vars

\* a note was appended to twice: its second and third entries added a tag
\* and a mention the first did not have
C17_Witness ==
  /\ lastOp.op = "createNote"
  /\ now = MaxClock
  /\ files[1].exists
  /\ files[1].data.created = 1 /\ files[1].data.updated = MaxClock
  /\ files[1].data.tags = <<"idea", "follow-up">>
  /\ files[1].data.mentions = <<"hannah", "bob-lee">>

(***************************************************************************)
(* Order and limit of the structured queries                               *)
(***************************************************************************)
\* the result list is in descending order of date
NewestFirst(result) ==
  \A k \in 1..(Len(result) - 1) :
    db.notes[result[k]].date >= db.notes[result[k + 1]].date

\* the result list holds the `limit` newest of the matching documents
KeepsNewest(result, matching, limit) ==
  /\ Ids(result) \subseteq matching
  /\ Len(result) = Min(limit, Cardinality(matching))
  /\ \A i \in matching \ Ids(result), k \in 1..Len(result) :
       db.notes[i].date <= db.notes[result[k]].date

OrderedAndNewest(result, matching, limit) ==
  NewestFirst(result) /\ KeepsNewest(result, matching, limit)

\* C18: searchByPerson, searchByTag, searchByCategory and searchByDateRange
\* return their results in descending order of date, and a limit that cuts
\* the result keeps the newest of the matching documents.
C18_NewestFirst ==
  \A limit \in QueryLimits :
    /\ \A name \in QueryNames :
         OrderedAndNewest(searchByPerson(db, name, limit),
                          { i \in DOMAIN db.notes : PersonMatches(db.notes[i], name) },
                          limit)
    /\ \A tag \in QueryTags :
         OrderedAndNewest(searchByTag(db, tag, limit),
                          { i \in DOMAIN db.notes : TagMatches(db.notes[i], tag) },
                          limit)
    /\ \A category \in QueryCategories :
         OrderedAndNewest(searchByCategory(db, category, limit),
                          { i \in DOMAIN db.notes :
                              CategoryMatches(db.notes[i], category) },
                          limit)
    /\ \A a \in Days, b \in Days :
         OrderedAndNewest(searchByDateRange(db, a, b, limit),
                          { i \in DOMAIN db.notes : DateMatches(db.notes[i], a, b) },
                          limit)

\* every day's note mentions hannah and a limit of 1 keeps the last day's
C18_Witness ==
  /\ \A d \in Days : d \in DOMAIN db.notes /\ PersonMatches(db.notes[d], "hannah")
  /\ searchByPerson(db, "hannah", 1) = <<MaxDay>>
  /\ searchByDateRange(db, 1, MaxDay, 1) = <<MaxDay>>

(***************************************************************************)
(* The change detector, FileWatcher, and the daemon around it              *)
(*                                                                         *)
(* chokidar reports add, change and unlink events for the paths under the  *)
(* notes directory; each event is delivered to its handler as one task of  *)
(* the event loop, some time after the file system changed.  A handler     *)
(* reads the file as it is when the handler runs.                          *)
(***************************************************************************)
NotesDir == "notes/2025/01/"

\* path.basename
Basename(path) ==
  LET slashes == Occurrences(path, "/")
  IN IF slashes = {} THEN path
     ELSE Slice(path, (CHOOSE x \in slashes : \A y \in slashes : x >= y) + 1,
                Len(path))

EndsWith(s, suffix) ==
  Len(s) >= Len(suffix) /\ SubSeq(s, Len(s) - Len(suffix) + 1, Len(s)) = suffix

\* the test without its extension: /^\d{4}-\d{2}-\d{2}/.test(basename)
isNoteFile_AnyExtension(filePath) ==
  LET filename == Basename(filePath)
  IN Len(filename) >= 10 /\ IsDateAt(filename, 1)

\* filePath.endsWith(".md") && /^\d{4}-\d{2}-\d{2}\.md$/.test(basename)

isNoteFile(filePath) ==
  /\ EndsWith(filePath, ".md")
  /\ LET filename == Basename(filePath)
     IN Len(filename) = 13 /\ IsDateAt(filename, 1)
        /\ SubSeq(filename, 11, 13) = ".md"

\* filename.replace(".md", "")
NoteIdOf(filePath) ==
  LET filename == Basename(filePath)
      k == IndexOf(filename, ".md", 0)
  IN IF k = -1 THEN filename
     ELSE Slice(filename, 0, k) \o Slice(filename, k + 3, Len(filename))

\* a file whose metadata block gray-matter cannot parse
MalformedFile == [exists |-> TRUE, malformed |-> TRUE, data |-> NoData,
                  content |-> ""]

\* a well-formed file with the metadata and the body of a note shape
FileOf(shape) ==
  Stringify(shape.content,
            [title |-> shape.title, category |-> shape.category,
             tags |-> shape.tags, created |-> 1, updated |-> 1,
             mentions |-> shape.mentions])

\* the shape of the documents the daemon's root holds
WatchedShape ==
  CHOOSE shape \in NoteShapes : shape.mentions = <<"hannah">>

\* what a handler can find at the path of its event
FoundFiles == {NoFile, MalformedFile, FileOf(WatchedShape)}

\* what the handler found, in a word
Found(file) ==
  IF ~file.exists THEN "missing"
  ELSE IF file.malformed THEN "malformed" ELSE "parsed"

\* the lists getAllNotes can return for the daemon's root
WatchedDocSets == SUBSET { MakeNote(d, WatchedShape) : d \in Days }

DatedPath(d) == NotesDir \o IsoOfDay(d) \o ".md"

\* watched paths that are not dated documents
OtherPaths ==
  { NotesDir \o "todo.md", NotesDir \o IsoOfDay(1) \o ".txt",
    NotesDir \o "2025-1-1.md", "notes/" \o IsoOfDay(1) \o ".md.bak" }

EventKinds == {"add", "change", "unlink"}

\* parseNote that takes the defaults when matter() throws
watcherParseNote_IgnoresThrow(filePath, file, t) ==
  IF ~file.exists THEN [ok |-> FALSE, emits |-> <<>>]
  ELSE [ok |-> TRUE, emits |-> <<>>,
        note |-> parseNote(file, DayOfIso(NoteIdOf(filePath)), t)]

\* FileWatcher.parseNote: the note, or null with an "error" event emitted
\* when matter() throws
watcherParseNote(filePath, file, t) ==
  IF ~file.exists THEN [ok |-> FALSE, emits |-> <<>>]
  ELSE IF file.malformed THEN [ok |-> FALSE, emits |-> <<"error">>]
  ELSE [ok |-> TRUE, emits |-> <<>>,
        note |-> parseNote(file, DayOfIso(NoteIdOf(filePath)), t)]

\* the handlers: the store afterwards, the Indexer calls made, the events
\* emitted
handleFileChange(S, filePath, file, extract, t) ==
  IF ~isNoteFile(filePath) THEN [store |-> S, calls |-> <<>>, emits |-> <<>>]
  ELSE LET r == watcherParseNote(filePath, file, t)
       IN IF r.ok
          THEN [store |-> indexNote(S, r.note, extract),
                calls |-> <<[op |-> "indexNote", id |-> r.note.id]>>,
                emits |-> <<"noteChanged">>]
          ELSE [store |-> S, calls |-> <<>>, emits |-> r.emits]

handleFileDelete(S, filePath) ==
  IF ~isNoteFile(filePath) THEN [store |-> S, calls |-> <<>>, emits |-> <<>>]
  ELSE LET noteId == DayOfIso(NoteIdOf(filePath))
       IN [store |-> removeNote(S, noteId),
           calls |-> <<[op |-> "removeNote", id |-> noteId]>>,
           emits |-> <<"noteDeleted">>]

\* .on("add" | "change", handleFileChange), .on("unlink", handleFileDelete)
Handler(S, event, file, extract, t) ==
  IF event.kind = "unlink" THEN handleFileDelete(S, event.path)
  ELSE handleFileChange(S, event.path, file, extract, t)

\* NoteManager.getAllNotes reads the root with readdirSync and readFileSync
\* only: the promise rebuildIndex awaits is settled when the await is reached
getAllNotesReadsAsynchronously == FALSE

getAllNotesIsSynchronous == TRUE

\* The await of a settled promise resumes in the microtask queue, which is
\* drained before the event loop runs its next task; the await of a promise
\* that later input or output settles lets other tasks run first.
AwaitYieldsToEventLoop == ~getAllNotesIsSynchronous

\* a task of the event loop (a file event, a request) can start now
TaskCanRun == pc = "idle" \/ (pc = "rebuilding" /\ AwaitYieldsToEventLoop)

\* the file system changes a dated document and chokidar notices; file
\* events arrive one at a time
FsEvent(kind, d) ==
  /\ events = {}
  /\ events' = {[kind |-> kind, path |-> DatedPath(d)]}
  /\ lastOp' = [op |-> "fsEvent", id |-> 0]
  /\ UNCHANGED <<enableEntityExtraction, db, miniSearch, noteContents, disk, pc,
                 pending, query, out, today, raw, snip, snippets, files, now, watched, git>>

\* one event is handled, start to end
Handle(event, file) ==
  /\ TaskCanRun
  /\ LET r == Handler(Store, event, file, enableEntityExtraction, now)
     IN /\ (enableEntityExtraction /\ r.calls # <<>> /\ event.kind # "unlink")
             => WithinCap(parseNote(file, r.calls[1].id, now))
        /\ SetStore(r.store)
        /\ watched' = [event |-> event, found |-> Found(file),
                       calls |-> r.calls, emits |-> r.emits]
  /\ lastOp' = [op |-> "fileEvent", id |-> 0]
  /\ UNCHANGED <<enableEntityExtraction, pc, pending, query, out, today, raw,
                 snip, snippets, files, now, git>>

\* an event for a dated document is delivered
Deliver(event, file) ==
  /\ event \in events
  /\ events' = events \ {event}
  /\ Handle(event, file)

\* an event for another watched path is delivered
DeliverOther(kind, filePath) ==
  /\ Handle([kind |-> kind, path |-> filePath], FileOf(WatchedShape))
  /\ UNCHANGED events

\* startDaemon: new Indexer(config) with the default configuration
InitDaemon == Init /\ enableEntityExtraction = TRUE

NextDaemon ==
  \/ \E kind \in EventKinds, d \in Days : FsEvent(kind, d)
  \/ \E event \in events, file \in FoundFiles : Deliver(event, file)
  \/ \E kind \in EventKinds, filePath \in OtherPaths : DeliverOther(kind, filePath)
  \/ \E docs \in WatchedDocSets : RebuildStart(docs)
  \/ RebuildFinish

SpecDaemon == InitDaemon /\ [][NextDaemon]_vars

\* the step is one run of a handler of the change detector
HandlerRan == lastOp'.op = "fileEvent"

DatedPaths == { DatedPath(d) : d \in Days }

\* the day whose dated path this is
DayOfPath(filePath) == CHOOSE d \in Days : DatedPath(d) = filePath

IndexUnchanged ==
  /\ db' = db
  /\ miniSearch' = miniSearch
  /\ noteContents' = noteContents

\* an event for a path that is no dated document changes nothing in the
\* index and announces no note
Ignored(w) ==
  /\ IndexUnchanged
  /\ w.calls = <<>>
  /\ \A i \in 1..Len(w.emits) : w.emits[i] \notin {"noteChanged", "noteDeleted"}

\* C19 as stated: a file event for a path whose name is not YYYY-MM-DD.md
\* leaves the index unchanged and emits neither noteChanged nor noteDeleted;
\* an event for a matching path causes exactly one indexNote or removeNote
\* for the id taken from the file name.
C19_OnlyDatedDocuments ==
  [][HandlerRan =>
       LET w == watched'
       IN IF w.event.path \in DatedPaths
          THEN /\ Len(w.calls) = 1
               /\ w.calls[1].op \in {"indexNote", "removeNote"}
               /\ w.calls[1].id = DayOfPath(w.event.path)
          ELSE Ignored(w)]_vars

\* C19, amended: a file event for a path whose name is not YYYY-MM-DD.md
\* leaves the index unchanged and emits neither noteChanged nor noteDeleted;
\* a delete event for a matching path causes exactly one removeNote for the
\* id taken from the file name; an add or change event for a matching path
\* causes exactly one indexNote for that id when the file exists and its
\* metadata block parses, and otherwise leaves the index unchanged and emits
\* no noteChanged.
C19_OnlyDatedDocumentsAmended ==
  [][HandlerRan =>
       LET w == watched'
       IN IF w.event.path \notin DatedPaths THEN Ignored(w)
          ELSE IF w.event.kind = "unlink"
          THEN /\ w.calls = <<[op |-> "removeNote", id |-> DayOfPath(w.event.path)]>>
               /\ w.emits = <<"noteDeleted">>
          ELSE IF w.found = "parsed"
          THEN /\ w.calls = <<[op |-> "indexNote", id |-> DayOfPath(w.event.path)]>>
               /\ w.emits = <<"noteChanged">>
          ELSE Ignored(w)]_vars

\* a change event for an indexed dated document whose file no longer parses
\* has been handled
C19_Witness ==
  /\ lastOp.op = "fileEvent"
  /\ watched.event = [kind |-> "change", path |-> DatedPath(1)]
  /\ watched.found = "malformed"
  /\ 1 \in DOMAIN db.notes

CaseShapes ==
  { [title |-> "notes", category |-> "work", tags |-> <<>>,
     mentions |-> m, content |-> "met hannah"] :
      m \in {<<"Hannah">>, <<"hannah", "Bob">>, <<"HANNAH">>, <<>>} }

CaseNotes == { MakeNote(d, shape) : d \in Days, shape \in CaseShapes }

NextEntities ==
  \/ \E note \in CaseNotes : IndexNote(note)
  \/ \E noteId \in Days : RemoveNote(noteId)

SpecEntities == InitDaemon /\ [][NextEntities]_vars

\* the lowercased names in the mentions column of a row
RowNames(row) == { ToLower(t) : t \in Tokens(row.mentions, ",") }

MaxTime == 10
debounceSeconds == 5   \* config.gitSync.debounceSeconds, its least value

\* clearTimeout(handle)
clearTimeout(timers, handle) == timers \ {handle}

\* scheduleSync that sets a new timer and leaves the old one running
scheduleSync_KeepsOldTimer(g) ==
  IF ~g.enabled THEN g
  ELSE [g EXCEPT !.pendingSync = TRUE,
                 !.timers = @ \cup {g.clock + debounceSeconds},
                 !.debounceTimer = g.clock + debounceSeconds]

scheduleSync(g) ==
  IF ~g.enabled THEN g
  ELSE [g EXCEPT !.pendingSync = TRUE,
                 !.timers = (IF g.debounceTimer # -1
                             THEN clearTimeout(@, g.debounceTimer) ELSE @)
                            \cup {g.clock + debounceSeconds},
                 !.debounceTimer = g.clock + debounceSeconds]

cancelPendingSync(g) ==
  [g EXCEPT !.timers = IF g.debounceTimer # -1
                       THEN clearTimeout(@, g.debounceTimer) ELSE @,
            !.debounceTimer = -1,
            !.pendingSync = FALSE]

\* sync() up to its first await: it returns at once when git sync is
\* disabled, otherwise a run is in progress until SyncReturns
sync(g) == IF ~g.enabled THEN g ELSE [g EXCEPT !.running = @ + 1]

\* the timeout's callback
timerCallback(g, due) ==
  LET g1 == [g EXCEPT !.timers = @ \ {due}]
  IN IF g1.pendingSync THEN sync([g1 EXCEPT !.pendingSync = FALSE]) ELSE g1

\* a timeout that is due runs before any other task and before time passes
NoTimerDue == \A due \in git.timers : due > git.clock

GitUnchanged ==
  UNCHANGED <<enableEntityExtraction, db, miniSearch, noteContents, disk, pc,
              pending, query, out, today, raw, snip, snippets, files, now,
              events, watched>>

\* startDaemon: watcher.start(), then the initial sync
StartDaemon ==
  /\ git.phase = "off"
  /\ git' = [sync(git) EXCEPT !.phase = "starting"]
  /\ lastOp' = [op |-> "startDaemon", id |-> 0]
  /\ GitUnchanged

\* the initial sync returns or throws; startDaemon goes on and registers
\* shutdown for the signals
InitialSyncReturns ==
  /\ git.phase = "starting"
  /\ git' = [git EXCEPT !.running = IF git.enabled THEN @ - 1 ELSE @,
                        !.phase = "running"]
  /\ lastOp' = [op |-> "started", id |-> 0]
  /\ GitUnchanged

\* the handler of noteChanged or noteDeleted
ScheduleSync ==
  /\ git.phase \in {"starting", "running"}
  /\ NoTimerDue
  /\ git' = [scheduleSync(git) EXCEPT
               !.firstCall = IF git.timers = {} THEN git.clock ELSE @,
               !.lastCall = git.clock,
               !.sinceCall = 0,
               !.cancelled = FALSE]
  /\ lastOp' = [op |-> "scheduleSync", id |-> 0]
  /\ GitUnchanged

TimerFires(due) ==
  /\ git.phase \in {"starting", "running", "stopping"}
  /\ due \in git.timers
  /\ due <= git.clock
  /\ git' = [timerCallback(git, due) EXCEPT
               !.sinceCall = IF git.pendingSync THEN @ + 1 ELSE @]
  /\ lastOp' = [op |-> IF git.pendingSync THEN "timerSync" ELSE "timer", id |-> 0]
  /\ GitUnchanged

\* a sync() that the timer started returns or throws
SyncReturns ==
  /\ git.phase \in {"starting", "running"}
  /\ git.running > (IF git.phase = "starting" THEN 1 ELSE 0)
  /\ git' = [git EXCEPT !.running = @ - 1]
  /\ lastOp' = [op |-> "synced", id |-> 0]
  /\ GitUnchanged

\* shutdown, on a signal: cancelPendingSync, then the final sync
Shutdown ==
  /\ git.phase = "running"
  /\ NoTimerDue
  /\ git' = [sync(cancelPendingSync(git)) EXCEPT
               !.phase = "stopping", !.cancelled = TRUE]
  /\ lastOp' = [op |-> "shutdown", id |-> 0]
  /\ GitUnchanged

\* the final sync has returned: process.exit(0)
Exit ==
  /\ git.phase = "stopping"
  /\ git' = [git EXCEPT !.phase = "stopped", !.running = 0, !.timers = {}]
  /\ lastOp' = [op |-> "exit", id |-> 0]
  /\ GitUnchanged

Tick ==
  /\ git.phase \in {"starting", "running", "stopping"}
  /\ git.clock < MaxTime
  /\ NoTimerDue
  /\ git' = [git EXCEPT !.clock = @ + 1]
  /\ lastOp' = [op |-> "tick", id |-> 0]
  /\ GitUnchanged

InitGit ==
  /\ enableEntityExtraction = TRUE
  /\ db = EmptyStore.db
  /\ miniSearch = EmptyStore.miniSearch
  /\ noteContents = EmptyStore.noteContents
  /\ disk = EmptyStore.disk
  /\ pc = "idle"
  /\ pending = {}
  /\ lastOp = [op |-> "create", id |-> 0]
  /\ query = NoQuery
  /\ out = <<>>
  /\ today = MaxDay
  /\ raw = <<>>
  /\ snip = NoSnip
  /\ snippets = <<>>
  /\ files = [d \in Days |-> NoFile]
  /\ now = 0
  /\ events = {}
  /\ watched = NoWatched
  /\ \E enabled \in BOOLEAN : git = [NoGit EXCEPT !.enabled = enabled]

NextGit ==
  \/ StartDaemon
  \/ InitialSyncReturns
  \/ ScheduleSync
  \/ \E due \in git.timers : TimerFires(due)
  \/ SyncReturns
  \/ Shutdown
  \/ Exit
  \/ Tick

SpecGit == InitGit /\ [][NextGit]_vars

\* C23: a burst of scheduleSync calls less than debounceSeconds apart leads
\* to exactly one sync from the timer, started debounceSeconds after the
\* last call of the burst; after cancelPendingSync no sync is started for
\* the burst; with git sync disabled scheduleSync starts no timer and no
\* sync.
C23_SyncDebounced ==
  [][ /\ lastOp'.op = "timerSync" =>
           /\ git.clock = git.lastCall + debounceSeconds
           /\ git.sinceCall = 0
           /\ ~git.cancelled
      /\ (lastOp'.op = "tick" /\ git.enabled /\ git.phase # "stopping"
             /\ git.lastCall # -1 /\ git.sinceCall = 0)
           => git.clock < git.lastCall + debounceSeconds
      /\ ~git.enabled => git'.timers = {} /\ git'.running = 0 ]_vars

\* the timer starts the sync of a burst of two calls three seconds apart
C23_Witness ==
  /\ lastOp.op = "timerSync"
  /\ git.firstCall = 0
  /\ git.lastCall = 3
  /\ git.clock = 3 + debounceSeconds
  /\ git.sinceCall = 1

\* C29: at most one sync() run is in progress at any time: a timer's sync,
\* the daemon's initial sync and the shutdown's final sync never overlap
\* with a sync that has started and not yet finished.
C29_OneSyncAtATime == git.running <= 1

C25_RepresentationsInStep ==
  [][ /\ pc' = "idle" =>
           /\ DOMAIN miniSearch' = DOMAIN db'.notes
           /\ DOMAIN noteContents' = DOMAIN db'.notes
           /\ \A i \in DOMAIN db'.notes :
                /\ noteContents'[i] = db'.notes[i].content
                /\ miniSearch'[i].content = db'.notes[i].content
      /\ \A i \in DOMAIN noteContents \cap DOMAIN noteContents' :
           noteContents'[i] # noteContents[i]
             => lastOp' = [op |-> "indexNote", id |-> i]
      /\ \A note \in AllNotes :
           IndexNote(note) => noteContents'[note.id] = note.content ]_vars

\* two documents with different bodies are in the index, the last call an
\* upsert of the first
C25_Witness ==
  /\ lastOp = [op |-> "indexNote", id |-> 1]
  /\ DOMAIN noteContents = {1, 2}
  /\ noteContents[1] = "lunch"
  /\ noteContents[2] = "met hannah"
  /\ enableEntityExtraction
  /\ db.entities = [hannah |-> 2, bob |-> 1]
  /\ db.note_entities = {<<1, "hannah">>, <<1, "bob">>, <<2, "hannah">>}

\* the entities linked to a note in note_entities
LinkedNames(d, noteId) == { l[2] : l \in { k \in d.note_entities : k[1] = noteId } }

\* C26: with entity extraction on, after indexNote(D) the entities linked to
\* D.id are exactly the names in D's mentions, also when an earlier version
\* of D mentioned others; and no link ever refers to a document that is not
\* in the notes table.
C26_LinksFollowMentions ==
  /\ (enableEntityExtraction /\ lastOp.op = "indexNote")
       => LinkedNames(db, lastOp.id) = RowNames(db.notes[lastOp.id])
  /\ \A l \in db.note_entities : l[1] \in DOMAIN db.notes

\* a SearchQuery whose only predicate is a date range
DateOnly(q) ==
  /\ q.startDate # 0 /\ q.endDate # 0
  /\ q.text = "" /\ q.person = "" /\ q.tag = "" /\ q.category = ""

\* C27: a search whose only predicate is a date range returns only
\* documents dated inside the range, and returns the empty list when no
\* indexed document is dated inside it.
C27_DateRangeFilters ==
  (lastOp.op = "search" /\ DateOnly(query))
    => /\ \A i \in 1..Len(out) :
            DateMatches(db.notes[out[i]], query.startDate, query.endDate)
       /\ (\A id \in DOMAIN db.notes :
              ~DateMatches(db.notes[id], query.startDate, query.endDate))
            => out = <<>>

(***************************************************************************)
(* Daemon startup                                                          *)
(*                                                                         *)
(* startDaemon starts the watcher, whose initial scan (ignoreInitial:      *)
(* false) announces every file that exists with an "add" event, awaits the  *)
(* initial git sync if git sync is enabled, and then rebuilds the index.    *)
(* The events are delivered by the event loop: while startDaemon waits for  *)
(* the initial sync, or after the rebuild has returned.  git.phase is       *)
(* "starting" until the rebuild begins and "running" once it has returned;  *)
(* the timers of GitSync are not followed here.  No file is modified.       *)
(***************************************************************************)
\* the dated note files of the root the daemon is started on
RootFiles == [Days -> {NoFile} \cup { FileOf(shape) : shape \in NoteShapes }]

ExistingDays == { d \in Days : files[d].exists }

\* what NoteManager.getAllNotes returns for the root
getAllNotes == { parseNote(files[d], d, now) : d \in ExistingDays }

\* the state when watcher.start() has returned
InitStartup ==
  /\ enableEntityExtraction = TRUE
  /\ db = EmptyStore.db
  /\ miniSearch = EmptyStore.miniSearch
  /\ noteContents = EmptyStore.noteContents
  /\ disk = EmptyStore.disk
  /\ pc = "idle"
  /\ pending = {}
  /\ lastOp = [op |-> "startDaemon", id |-> 0]
  /\ query = NoQuery
  /\ out = <<>>
  /\ today = MaxDay
  /\ raw = <<>>
  /\ snip = NoSnip
  /\ snippets = <<>>
  /\ files \in RootFiles
  /\ now = 0
  /\ events = { [kind |-> "add", path |-> DatedPath(d)] : d \in ExistingDays }
  /\ watched = NoWatched
  /\ \E enabled \in BOOLEAN :
       git = [NoGit EXCEPT !.enabled = enabled, !.phase = "starting"]

\* an event of the initial scan is handled; without git sync startDaemon
\* reaches the rebuild before the event loop runs
ScanEvent(event) ==
  /\ git.enabled \/ git.phase = "running"
  /\ Deliver(event, files[DayOfPath(event.path)])

\* startDaemon calls indexer.rebuildIndex(noteManager)
StartupRebuild ==
  /\ git.phase = "starting"
  /\ pc = "idle"
  /\ SetStore(rebuildClear(Store))
  /\ pc' = "rebuilding"
  /\ pending' = getAllNotes
  /\ git' = [git EXCEPT !.phase = "rebuilding"]
  /\ lastOp' = [op |-> "rebuildClear", id |-> 0]
  /\ UNCHANGED <<enableEntityExtraction, query, out, today, raw, snip, snippets,
                 files, now, events, watched>>

\* the startup rebuild returns
StartupRebuilt ==
  /\ git.phase = "rebuilding"
  /\ pc = "rebuilding"
  /\ \E order \in Orders(pending) :
       SetStore(rebuildReindex(Store, order, enableEntityExtraction))
  /\ pc' = "idle"
  /\ pending' = {}
  /\ git' = [git EXCEPT !.phase = "running"]
  /\ lastOp' = [op |-> "rebuildIndex", id |-> Cardinality(pending)]
  /\ UNCHANGED <<enableEntityExtraction, query, out, today, raw, snip, snippets,
                 files, now, events, watched>>

NextStartup ==
  \/ \E event \in events : ScanEvent(event)
  \/ StartupRebuild
  \/ StartupRebuilt

SpecStartup == InitStartup /\ [][NextStartup]_vars

\* the documents of the root that mention the person
MentionedIn(name) ==
  { d \in ExistingDays : name \in MentionNames(parseNote(files[d], d, now)) }

\* the rebuild has returned and every event of the initial scan is handled
StartupDone == git.phase = "running" /\ events = {} /\ pc = "idle"

\* C28: when the startup rebuild has returned and every event of the
\* initial scan has been handled, with no file modified meanwhile, noteCount
\* is the number of dated note files and every person's mention_count is
\* the number of documents that mention the person.
C28_StartupIndexesOnce ==
  StartupDone
    => /\ noteCount(db) = Cardinality(ExistingDays)
       /\ \A name \in DOMAIN db.entities :
            db.entities[name] = Cardinality(MentionedIn(name))

(***************************************************************************)
(* Rebuild and watcher on a month directory with other files               *)
(*                                                                         *)
(* Note ids are day numbers in this model; the id of a file whose name is  *)
(* no date is written OtherId, and IdName gives the id's text back.        *)
(***************************************************************************)
OtherId == 0

\* the names a month directory can hold
MonthNames ==
  { IsoOfDay(d) \o ".md" : d \in Days } \cup {"todo.md", IsoOfDay(1) \o ".txt"}

\* the id parseNote derives from the file name: filename.replace(".md", "")
IdOfName(filename) ==
  LET date == NoteIdOf(filename)
  IN IF Len(date) = 10 /\ IsDateAt(date, 1) THEN DayOfIso(date) ELSE OtherId

IdName(id) == IF id = OtherId THEN "todo" ELSE IsoOfDay(id)

\* the loop of getAllNotes over readdirSync(monthPath): every name that
\* ends with ".md" is parsed
listNotes(names) ==
  { parseNote(FileOf(WatchedShape), IdOfName(f), now) :
      f \in { n \in names : EndsWith(n, ".md") } }

\* rebuildIndex up to the await, on a month directory holding `names`
RebuildListed(names) == RebuildStart(listNotes(names))

NextMonth ==
  \/ \E kind \in EventKinds, d \in Days : FsEvent(kind, d)
  \/ \E event \in events, file \in FoundFiles : Deliver(event, file)
  \/ \E kind \in EventKinds, filePath \in OtherPaths : DeliverOther(kind, filePath)
  \/ \E names \in SUBSET MonthNames : RebuildListed(names)
  \/ RebuildFinish

SpecMonth == InitDaemon /\ [][NextMonth]_vars

\* C30: after any sequence of watcher events and rebuildIndex calls, every
\* id in the index has the form YYYY-MM-DD, the form the watcher asks of a
\* file name: a markdown file with another name is indexed by neither.
C30_SameDocuments ==
  pc = "idle"
    => \A id \in DOMAIN db.notes : isNoteFile(NotesDir \o IdName(id) \o ".md")

====
